---- MODULE Spec2Model ----
(***************************************************************************)
(* A model of the annotation-geometry and animation engine of the          *)
(* b-roll-highlights repository: span clustering (remotion/components),    *)
(* the reveal/timing engine (remotion/Composition.tsx), the duration       *)
(* resolver (remotion/Root.tsx) and the request boundary                   *)
(* (server/routes/render.ts).                                              *)
(*                                                                         *)
(* Numbers.  Pixel coordinates of word boxes are integers.  Seconds are    *)
(* carried in tenths of a second (leadInTenths = 10 * leadInSeconds), so   *)
(* that Math.round and Math.ceil are computed on exact rationals.  Reveal  *)
(* quantities that are fractions in the code are carried as an integer     *)
(* numerator over a denominator that is named next to them.                *)
(***************************************************************************)
EXTENDS Integers, Sequences, FiniteSets, TLC

VARIABLES
    selectedWords,  \* WordBox[]: the selection, in click order
    spans,          \* the span list of the last clustering run
    pc,             \* where the editor / render pipeline stands
    body,           \* the JSON body of the render request
    props,          \* HighlightProps: the accepted request
    meta,           \* calculateMetadata's result
    frame,          \* useCurrentFrame()
    out,            \* what the composition drew for `frame`
    editor,         \* the editor: image state, zoom-box drag, undo history
    server          \* the render service: the bundle cache and the open streams

vars == <<selectedWords, spans, pc, body, props, meta, frame, out, editor, server>>

---------------------------------------------------------------------------
(* Bounds of the model *)

\* most words a selection holds in the clustering specification
MaxSelected == 3
\* most snapshots the undo and redo stacks of the editor hold together
MaxHistory == 1
\* most snapshots the two stacks hold together when a change is pushed in the
\* undo and redo specification
MaxSnapshots == 2
\* render requests the server receives
MaxCalls == 3
\* progress events renderMedia reports for one render
MaxProgressEvents == 1

---------------------------------------------------------------------------
(* Small helpers *)

Min2(a, b) == IF a <= b THEN a ELSE b
Max2(a, b) == IF a >= b THEN a ELSE b

Range(s) == {s[i] : i \in 1..Len(s)}

RECURSIVE SeqSum(_)
SeqSum(s) == IF s = <<>> THEN 0 ELSE Head(s) + SeqSum(Tail(s))

\* all sequences without repetition over S of length at most n
RECURSIVE DistinctSeqs(_, _)
DistinctSeqs(S, n) ==
    IF n = 0 THEN {<<>>}
    ELSE LET shorter == DistinctSeqs(S, n - 1)
             longest == {t \in shorter : Len(t) = n - 1}
         IN  shorter \cup UNION {{Append(t, x) : x \in S \ Range(t)} : t \in longest}

---------------------------------------------------------------------------
(* The OCR words of the image under edit.  Tesseract rows whose text is    *)
(* empty are dropped by the OCR service, so every word has text.           *)

Lefts   == {0, 60, 70, 75}
Tops    == {0, 10, 20}
Widths  == {10, 80}
Heights == {20}

\* a wider box holds a longer word
WordText(width) == IF width <= 10 THEN "word" ELSE "highlighted"

OcrWords ==
    {[text |-> WordText(w), left |-> l, top |-> t, width |-> w, height |-> h] :
        l \in Lefts, t \in Tops, w \in Widths, h \in Heights}

---------------------------------------------------------------------------
(* Array.prototype.sort with a comparator a[key] - b[key]: a stable sort.  *)

RECURSIVE InsertStable(_, _, _)
InsertStable(s, x, key) ==
    IF s = <<>> THEN <<x>>
    ELSE IF Head(s)[key] <= x[key]
         THEN <<Head(s)>> \o InsertStable(Tail(s), x, key)
         ELSE <<x>> \o s

RECURSIVE SortBy(_, _)
SortBy(s, key) ==
    IF s = <<>> THEN <<>>
    ELSE InsertStable(SortBy(SubSeq(s, 1, Len(s) - 1), key), s[Len(s)], key)

\* the grouping run on the selection in click order
KeepClickOrder(words) == words

\* wordsCopy.sort((a, b) => a.top - b.top)
SortByTop(words) == SortBy(words, "top")

\* row.sort((a, b) => a.left - b.left)
SortByLeft(row) == SortBy(row, "left")

---------------------------------------------------------------------------
(* Row grouping *)

RECURSIVE SeqMin(_)
SeqMin(s) == IF Len(s) = 1 THEN s[1] ELSE Min2(Head(s), SeqMin(Tail(s)))
RECURSIVE SeqMax(_)
SeqMax(s) == IF Len(s) = 1 THEN s[1] ELSE Max2(Head(s), SeqMax(Tail(s)))

\* Math.min(...row.map((w) => w.top))
RowTop(row) == SeqMin([i \in 1..Len(row) |-> row[i].top])
\* Math.max(...row.map((w) => w.top + w.height))
RowBottom(row) == SeqMax([i \in 1..Len(row) |-> row[i].top + row[i].height])

\* the overlap test with the two row edges swapped
OverlapsSwapped(word, row) ==
    /\ word.top < RowTop(row)
    /\ word.top + word.height > RowBottom(row)

\* word.top < rowBottom && wordBottom > rowTop
Overlaps(word, row) ==
    /\ word.top < RowBottom(row)
    /\ word.top + word.height > RowTop(row)

\* for (const row of rows) { if (overlaps) { row.push(word); break } }
\* and rows.push([word]) when no row was found
RECURSIVE PlaceWord(_, _, _)
PlaceWord(rows, word, i) ==
    IF i > Len(rows) THEN Append(rows, <<word>>)
    ELSE IF Overlaps(word, rows[i])
         THEN [rows EXCEPT ![i] = Append(@, word)]
         ELSE PlaceWord(rows, word, i + 1)

RECURSIVE GroupRows(_, _)
GroupRows(words, rows) ==
    IF words = <<>> THEN rows
    ELSE GroupRows(Tail(words), PlaceWord(rows, Head(words), 1))

RECURSIVE InsertRow(_, _)
InsertRow(rows, row) ==
    IF rows = <<>> THEN <<row>>
    ELSE IF RowTop(Head(rows)) <= RowTop(row)
         THEN <<Head(rows)>> \o InsertRow(Tail(rows), row)
         ELSE <<row>> \o rows

RECURSIVE ReverseSeq(_)
ReverseSeq(s) == IF s = <<>> THEN <<>> ELSE Append(ReverseSeq(Tail(s)), Head(s))

RECURSIVE SortRowsAscending(_)
SortRowsAscending(rows) ==
    IF rows = <<>> THEN <<>>
    ELSE InsertRow(SortRowsAscending(SubSeq(rows, 1, Len(rows) - 1)), rows[Len(rows)])

\* the comparator with its operands swapped: bottom row first
SortRowsDescending(rows) == ReverseSeq(SortRowsAscending(rows))

\* rows.sort((a, b) => min top of a - min top of b)
SortRows(rows) == SortRowsAscending(rows)

\* the rows of a selection: grouped, sorted, each row sorted by left
Rows(words) ==
    LET sorted == SortRows(GroupRows(SortByTop(words), <<>>))
    IN  [r \in 1..Len(sorted) |-> SortByLeft(sorted[r])]

---------------------------------------------------------------------------
(* Span merge.  A span carries, besides the four edges the code keeps, two *)
(* history fields the code does not have: `row`, the index of its row in   *)
(* the sorted row list, and `words`, the boxes merged into it, in order.   *)

NewSpan(word, r) ==
    [left   |-> word.left,
     top    |-> word.top,
     right  |-> word.left + word.width,
     bottom |-> word.top + word.height,
     row    |-> r,
     words  |-> <<word>>]

\* a gap test that also merges at the threshold itself
IsAdjacentInclusive(currentSpan, word) ==
    2 * (word.left - currentSpan.right)
        <= 3 * ((currentSpan.bottom - currentSpan.top) + word.height)

\* avgHeight = (span height + word.height) / 2; gap < avgHeight * 3
IsAdjacent(currentSpan, word) ==
    2 * (word.left - currentSpan.right)
        < 3 * ((currentSpan.bottom - currentSpan.top) + word.height)

\* currentSpan.right = wordRight; top = min(...); bottom = max(...)
ExtendSpan(currentSpan, word) ==
    [currentSpan EXCEPT !.right  = word.left + word.width,
                        !.top    = Min2(@, word.top),
                        !.bottom = Max2(@, word.top + word.height),
                        !.words  = Append(@, word)]

\* for (const word of row) { ... } followed by spans.push(currentSpan)
RECURSIVE MergeRow(_, _, _, _)
MergeRow(row, currentSpan, emitted, r) ==
    IF row = <<>> THEN Append(emitted, currentSpan)
    ELSE IF IsAdjacent(currentSpan, Head(row))
         THEN MergeRow(Tail(row), ExtendSpan(currentSpan, Head(row)), emitted, r)
         ELSE MergeRow(Tail(row), NewSpan(Head(row), r),
                       Append(emitted, currentSpan), r)

RECURSIVE MergeRows(_, _, _)
MergeRows(rows, r, emitted) ==
    IF r > Len(rows) THEN emitted
    ELSE MergeRows(rows, r + 1,
                   MergeRow(Tail(rows[r]), NewSpan(Head(rows[r]), r), emitted, r))

\* the span list of a selection
ClusterSpans(words) == MergeRows(Rows(words), 1, <<>>)

---------------------------------------------------------------------------
(* Program constants (src/types.ts) *)

FPS == 30
\* DEFAULT_UNBLUR_SECONDS = 0.6
DEFAULT_UNBLUR_TENTHS == 6

ModesWithSpans == {"highlight", "circle", "underline"}
\* the modes the HighlightVideo composition renders ("lower-third" is rendered
\* by a composition of its own)
MarkingModes == {"highlight", "circle", "underline", "unblur", "zoom"}
FrameRates == {24, 30, 60}

\* the zoom box, in percent of the image; present = FALSE stands for null
NoZoomBox == [present |-> FALSE, x |-> 0, y |-> 0, width |-> 0, height |-> 0]
SomeZoomBox == [present |-> TRUE, x |-> 10, y |-> 20, width |-> 40, height |-> 40]

\* OUTPUT_DIMENSIONS (src/types.ts)
OUTPUT_DIMENSIONS ==
    [landscape |-> [width |-> 1920, height |-> 1080],
     portrait  |-> [width |-> 1080, height |-> 1920],
     square    |-> [width |-> 1080, height |-> 1080]]

OutputFormats == {"landscape", "portrait", "square"}

---------------------------------------------------------------------------
(* isDarkBackground.  The code evaluates                                   *)
(*     (0.299 * r + 0.587 * g + 0.114 * b) / 255 < 0.5                     *)
(* in IEEE-754 doubles, left to right.  In exact arithmetic the test is    *)
(* 299 r + 587 g + 114 b < 127500.  For r, g, b in 0..255 the double       *)
(* evaluation agrees with the exact one on every colour but the 44 below:  *)
(* their luminance is exactly 1/2, and the doubles give                    *)
(* 0.49999999999999994.                                                    *)

RoundedBelowHalf ==
    {
     <<0, 204, 68>>, <<12, 174, 191>>, <<15, 195, 75>>, <<23, 175, 157>>, <<30, 186, 82>>,
     <<38, 166, 164>>, <<41, 187, 48>>, <<53, 157, 171>>, <<56, 178, 55>>, <<64, 158, 137>>,
     <<71, 169, 62>>, <<79, 149, 144>>, <<86, 160, 69>>, <<87, 129, 226>>, <<94, 140, 151>>,
     <<97, 161, 35>>, <<102, 120, 233>>, <<112, 152, 42>>, <<117, 111, 240>>, <<120, 132, 124>>,
     <<127, 143, 49>>, <<132, 102, 247>>, <<135, 123, 131>>, <<138, 144, 15>>, <<143, 103, 213>>,
     <<147, 93, 254>>, <<153, 135, 22>>, <<158, 94, 220>>, <<161, 115, 104>>, <<168, 126, 29>>,
     <<173, 85, 227>>, <<176, 106, 111>>, <<188, 76, 234>>, <<194, 118, 2>>, <<198, 108, 43>>,
     <<199, 77, 200>>, <<209, 109, 9>>, <<214, 68, 207>>, <<217, 89, 91>>, <<224, 100, 16>>,
     <<232, 80, 98>>, <<239, 91, 23>>, <<240, 60, 180>>, <<255, 51, 187>>
    }

\* the luminance test in exact arithmetic
ExactlyBelowHalf(rgb) == 299 * rgb[1] + 587 * rgb[2] + 114 * rgb[3] < 127500

\* the luminance test as the doubles decide it
isDarkBackground(rgb) == ExactlyBelowHalf(rgb) \/ rgb \in RoundedBelowHalf

---------------------------------------------------------------------------
(* Arithmetic of the timing code on exact rationals *)

\* Math.ceil(n / d) for n >= 0, d > 0
CeilDiv(n, d) == (n + d - 1) \div d
\* Math.round(n / d) for n >= 0, d > 0: halves go up
RoundDiv(n, d) == (2 * n + d) \div (2 * d)

\* selectedWords.reduce((sum, word) => sum + word.text.length, 0)
TotalCharacters(words) == SeqSum([i \in 1..Len(words) |-> Len(words[i].text)])

---------------------------------------------------------------------------
(* The request boundary: parseRenderBody *)

\* !filename || !backgroundColor, then: neither words nor a zoom box
ParseError(req, words) ==
    IF ~req.hasFilename \/ ~req.hasBackgroundColor
    THEN "Missing required fields"
    ELSE IF words = <<>> /\ ~req.zoomBox.present
         THEN "Either selectedWords or zoomBox required"
         ELSE "ok"

\* the HighlightProps of an accepted body; every timing field of the body is
\* a number here, so `??` keeps it and `|| 30` keeps a non-zero frame rate
ParsedProps(req) ==
    [backgroundColor     |-> req.backgroundColor,
     markingMode         |-> req.markingMode,
     leadInTenths        |-> req.leadInTenths,
     leadOutTenths       |-> req.leadOutTenths,
     charsPerSecond      |-> req.charsPerSecond,
     unblurTenths        |-> DEFAULT_UNBLUR_TENTHS,
     zoomBox             |-> req.zoomBox,
     zoomDurationTenths  |-> req.zoomDurationTenths,
     cameraMovement      |-> req.cameraMovement,
     enterAnimation      |-> req.enterAnimation,
     exitAnimation       |-> req.exitAnimation,
     imageWidth          |-> IF req.imageWidth = 0 THEN 1920 ELSE req.imageWidth,
     imageHeight         |-> IF req.imageHeight = 0 THEN 1080 ELSE req.imageHeight,
     outputFormat        |-> req.outputFormat,
     frameRate           |-> IF req.frameRate = 0 THEN 30 ELSE req.frameRate]

---------------------------------------------------------------------------
(* The Duration Resolver: estimateHighlightDuration and calculateMetadata *)

\* markingMode === "zoom" && zoomBox
UsesZoomDuration(p) == p.markingMode = "zoom" /\ p.zoomBox.present

\* a floor of half a second for short text
MinimumTextFramesHalf(fps) == fps \div 2

\* Math.max(fps, framesNeeded): at least one second
MinimumTextFrames(fps) == fps

\* the resolver without the two-second default for an empty selection
estimateHighlightDurationNoDefault(p, words, fps) ==
    IF UsesZoomDuration(p)
    THEN CeilDiv(p.zoomDurationTenths * fps, 10)
    ELSE Max2(MinimumTextFrames(fps),
              CeilDiv(TotalCharacters(words) * fps, p.charsPerSecond))

estimateHighlightDuration(p, words, fps) ==
    IF UsesZoomDuration(p)
    THEN CeilDiv(p.zoomDurationTenths * fps, 10)
    ELSE IF Len(words) = 0
         THEN fps * 2
         ELSE Max2(MinimumTextFrames(fps),
                   CeilDiv(TotalCharacters(words) * fps, p.charsPerSecond))

IsSlideExit(exitAnimation) == exitAnimation # "blur" /\ exitAnimation # "none"

calculateMetadata(p, words) ==
    LET fps             == p.frameRate
        leadInFrames    == Max2(30, RoundDiv(p.leadInTenths * fps, 10))
        leadOutFrames   == RoundDiv(p.leadOutTenths * fps, 10)
        exitBuffer      == IF IsSlideExit(p.exitAnimation) THEN RoundDiv(fps, 2) ELSE 0
        highlightFrames == estimateHighlightDuration(p, words, fps)
    IN  [durationInFrames |-> leadInFrames + highlightFrames + leadOutFrames + exitBuffer,
         fps              |-> fps,
         leadInFrames     |-> leadInFrames,
         leadOutFrames    |-> leadOutFrames,
         exitBuffer       |-> exitBuffer,
         highlightFrames  |-> highlightFrames,
         width            |-> OUTPUT_DIMENSIONS[p.outputFormat].width,
         height           |-> OUTPUT_DIMENSIONS[p.outputFormat].height]

NoMeta ==
    [durationInFrames |-> 0, fps |-> 0, leadInFrames |-> 0, leadOutFrames |-> 0,
     exitBuffer |-> 0, highlightFrames |-> 0, width |-> 0, height |-> 0]

---------------------------------------------------------------------------
(* The composition: timing (remotion/Composition.tsx) *)

\* leadInFrames = Math.round(leadInSeconds * FPS)
CompositionLeadInFrames(p) == RoundDiv(p.leadInTenths * FPS, 10)

\* Math.max(30, Math.ceil((totalCharacters / charsPerSecond) * FPS))
TotalHighlightFrames(p, words) ==
    Max2(30, CeilDiv(TotalCharacters(words) * FPS, p.charsPerSecond))

\* Math.max(30, leadInFrames)
HighlightStartFrame(p) == Max2(30, CompositionLeadInFrames(p))

\* Math.max(0, frame - highlightStartFrame)
HighlightFrame(p, f) == Max2(0, f - HighlightStartFrame(p))

\* scaleFactor = displayWidth / imageWidth, as a fraction num / den
ScaleFactor(p) ==
    IF p.imageWidth * 880 > 1720 * p.imageHeight
    THEN [num |-> 1720, den |-> p.imageWidth]
    ELSE [num |-> 880, den |-> p.imageHeight]

---------------------------------------------------------------------------
(* RoughHighlighter: the marker sweep.  Widths are in units of             *)
(* 1 / (2 * scale.den) px; distances swept are in units of                 *)
(* 1 / (2 * scale.den * totalHighlightFrames) px.                          *)

\* an animation that starts over after totalHighlightFrames
ProgressLooping(animationFrame, T) == animationFrame % T

\* progress = Math.min(1, animationFrame / totalHighlightFrames), times T
Progress(animationFrame, T) == Min2(T, animationFrame)

\* spanWidth = w + paddingX * 2 with paddingX = h * 0.25
SpanWidth(span, scale) ==
    scale.num * (2 * (span.right - span.left) + (span.bottom - span.top))

RECURSIVE TotalPixelWidth(_, _)
TotalPixelWidth(sp, scale) ==
    IF sp = <<>> THEN 0 ELSE SpanWidth(Head(sp), scale) + TotalPixelWidth(Tail(sp), scale)

\* a reach test that lets a span start the moment the sweep touches it
NotReachedStrict(distanceTraveled, cumulativeDistance, T) ==
    distanceTraveled < cumulativeDistance * T

\* distanceTraveled <= cumulativeDistance: break
NotReached(distanceTraveled, cumulativeDistance, T) ==
    distanceTraveled <= cumulativeDistance * T

\* for (let i = 0; i < spans.length; i++) { ... cumulativeDistance += spanWidth }
RECURSIVE DrawSpans(_, _, _, _, _, _, _)
DrawSpans(sp, i, cumulativeDistance, distanceTraveled, T, scale, drawn) ==
    IF i > Len(sp) \/ NotReached(distanceTraveled, cumulativeDistance, T)
    THEN drawn
    ELSE LET spanWidth == SpanWidth(sp[i], scale)
             distanceIntoSpan == distanceTraveled - cumulativeDistance * T
             rect == [span      |-> i,
                      drawWidth |-> Min2(spanWidth * T, distanceIntoSpan),
                      spanWidth |-> spanWidth * T]
         IN  DrawSpans(sp, i + 1, cumulativeDistance + spanWidth,
                       distanceTraveled, T, scale, Append(drawn, rect))

DistanceTraveled(sp, animationFrame, T, scale) ==
    Progress(animationFrame, T) * TotalPixelWidth(sp, scale)

\* the clipped rectangles the effect appends; nothing for an empty selection
RoughHighlighter(words, animationFrame, T, scale) ==
    IF words = <<>> THEN <<>>
    ELSE LET sp == ClusterSpans(words)
         IN  DrawSpans(sp, 1, 0, DistanceTraveled(sp, animationFrame, T, scale),
                       T, scale, <<>>)

---------------------------------------------------------------------------
(* SvgCircler and SvgUnderliner: one stroke per span, each in its own      *)
(* slice of the progress.  linearProgress is carried times T, the eased    *)
(* progress times T^3.                                                     *)

\* every span animating over the whole progress instead of its own slice
LinearProgressShared(index, N, progress, T) ==
    Max2(0, Min2(T, progress))

\* linearProgress = clamp01((progress - index / N) / ((index + 1) / N - index / N))
LinearProgress(index, N, progress, T) ==
    Max2(0, Min2(T, N * progress - index * T))

\* penDrawingEase: 1 - (1 - t)^3
PenDrawingEase(lin, T) == T * T * T - (T - lin) * (T - lin) * (T - lin)

\* the <path> elements returned; null for an empty selection, and a span
\* whose linearProgress is <= 0 renders null
SvgStrokes(words, animationFrame, T) ==
    IF words = <<>> THEN <<>>
    ELSE LET sp == ClusterSpans(words)
             N == Len(sp)
             progress == Progress(animationFrame, T)
             all == [i \in 1..N |->
                        [span           |-> i,
                         linearProgress |-> LinearProgress(i - 1, N, progress, T),
                         visible        |-> PenDrawingEase(
                                              LinearProgress(i - 1, N, progress, T), T),
                         length         |-> T * T * T]]
         IN  SelectSeq(all, LAMBDA s : s.linearProgress > 0)

---------------------------------------------------------------------------
(* UnblurReveal and the unblur progress *)

\* Math.max(1, Math.round(unblurSeconds * FPS))
UnblurDurationFrames(p) == Max2(1, RoundDiv(p.unblurTenths * FPS, 10))

\* interpolate(frame, [start, end], [0, 1]) clamped on both sides, times (end - start)
ClampedLinear(f, start, end) == Max2(0, Min2(end - start, f - start))

\* the sharp layer: rendered only when active and words are selected;
\* its opacity is opacityNum / opacityDen
UnblurLayer(p, words, f) ==
    [rendered   |-> words # <<>> /\ f >= HighlightStartFrame(p),
     opacityNum |-> ClampedLinear(f, HighlightStartFrame(p),
                                  HighlightStartFrame(p) + UnblurDurationFrames(p)),
     opacityDen |-> UnblurDurationFrames(p)]

NoUnblur == [rendered |-> FALSE, opacityNum |-> 0, opacityDen |-> 1]

---------------------------------------------------------------------------
(* calculateZoomTransform *)

\* Math.round(zoomDurationSeconds * FPS)
ZoomDurationFrames(p) == RoundDiv(p.zoomDurationTenths * FPS, 10)

\* Easing.inOut(Easing.cubic) of t = tn / td, times td^3
EaseInOutCubic(tn, td) ==
    IF 2 * tn < td
    THEN 4 * tn * tn * tn
    ELSE td * td * td - 4 * (td - tn) * (td - tn) * (td - tn)

\* zoomScale = scaleNum / scaleDen; zoomTranslateX = translateXNum / translateDen
\* percent, zoomTranslateY likewise
calculateZoomTransform(p, f) ==
    IF p.markingMode # "zoom" \/ ~p.zoomBox.present
    THEN [scaleNum |-> 1, scaleDen |-> 1,
          translateXNum |-> 0, translateYNum |-> 0, translateDen |-> 1,
          progressNum |-> 0, progressDen |-> 1]
    ELSE LET td == ZoomDurationFrames(p)
             zoomStartFrame == CompositionLeadInFrames(p)
             tn == ClampedLinear(f, zoomStartFrame, zoomStartFrame + td)
             pn == EaseInOutCubic(tn, td)
             pd == td * td * td
             box == p.zoomBox
         IN  \* scale = 1 + progress * (100 / width - 1)
             [scaleNum      |-> pd * box.width + pn * (100 - box.width),
              scaleDen      |-> pd * box.width,
              \* translate = progress * (0.5 - boxCenter) * 100
              translateXNum |-> pn * (100 - 2 * box.x - box.width),
              translateYNum |-> pn * (100 - 2 * box.y - box.height),
              translateDen  |-> 2 * pd,
              progressNum   |-> pn,
              progressDen   |-> pd]

\* greatest common divisor of two naturals
RECURSIVE Gcd(_, _)
Gcd(a, b) == IF b = 0 THEN a ELSE Gcd(b, a % b)

Abs(n) == IF n < 0 THEN 0 - n ELSE n

\* the fraction num / den (den > 0) in lowest terms
Reduce(num, den) ==
    LET g == Gcd(Abs(num), den)
    IN  IF num = 0 THEN [num |-> 0, den |-> 1] ELSE [num |-> num \div g, den |-> den \div g]

\* a transform list read in the other order: translate(...) scale(...)
ZoomedPointScaleFirst(zoom, X2, Y2) ==
    LET sc == Reduce(zoom.scaleNum, zoom.scaleDen)
        tx == Reduce(zoom.translateXNum, zoom.translateDen)
        ty == Reduce(zoom.translateYNum, zoom.translateDen)
    IN  [x |-> Reduce(sc.num * (X2 - 100) * tx.den + 2 * tx.num * sc.den,
                      2 * sc.den * tx.den),
         y |-> Reduce(sc.num * (Y2 - 100) * ty.den + 2 * ty.num * sc.den,
                      2 * sc.den * ty.den)]

\* transform: scale(zoomScale) translate(zoomTranslateX%, zoomTranslateY%) on
\* the inner div, about its centre: a point is first moved by the translation
\* (a percentage of the div's own size), then scaled.  The point is given by
\* twice its coordinates in percent of the image (X2 = 2 * x); the result is
\* its offset from the centre of the frame, in percent, as a fraction.
ZoomedPoint(zoom, X2, Y2) ==
    LET sc   == Reduce(zoom.scaleNum, zoom.scaleDen)
        offX == Reduce((X2 - 100) * zoom.translateDen + 2 * zoom.translateXNum,
                       2 * zoom.translateDen)
        offY == Reduce((Y2 - 100) * zoom.translateDen + 2 * zoom.translateYNum,
                       2 * zoom.translateDen)
    IN  [x |-> Reduce(sc.num * offX.num, sc.den * offX.den),
         y |-> Reduce(sc.num * offY.num, sc.den * offY.den)]

---------------------------------------------------------------------------
(* Enter, exit and camera transforms.  interpolate(frame, [a, b], [u, v])  *)
(* maps frame to u + e(t) * (v - u) with t = (frame - a) / (b - a); a side *)
(* marked "clamp" pins t to the end of the range, a side left unmarked     *)
(* extends: t and e(t) leave [0, 1].  Every enter and exit quantity is a   *)
(* numerator over EaseDen.                                                 *)

\* const animationDuration = 30
AnimationDuration == 30
\* const slideDistance = 150
SlideDistance == 150
\* const maxBlur = 20
MaxBlur == 20
\* the exit buffer the composition keeps for a slide exit
CompositionExitBuffer == 15

EnterAnimations == {"blur", "from-bottom", "from-top", "from-left", "from-right", "none"}
ExitAnimations == {"blur", "to-bottom", "to-top", "to-left", "to-right", "none"}
CameraMovements ==
    {"left-right", "right-left", "up-down", "down-up", "zoom-in", "zoom-out", "none"}

Cube(n) == n * n * n

\* the denominator of every eased fraction of a 30-frame animation
EaseDen == Cube(AnimationDuration)

\* 1 - Easing.out(Easing.cubic)(t) for t = tn / AnimationDuration, times EaseDen
EnterRemaining(tn) == Cube(AnimationDuration - tn)

\* the enter animation at frame f: extrapolateRight "clamp", frames start at 0
calculateEnterAnimation(p, f) ==
    LET tn   == Min2(f, AnimationDuration)
        left == EnterRemaining(tn)
        slideOpacity == EaseDen - left
    IN  CASE p.enterAnimation = "blur" ->
               [blur |-> MaxBlur * left, translateX |-> 0, translateY |-> 0,
                opacity |-> EaseDen]
          [] p.enterAnimation = "from-bottom" ->
               [blur |-> 0, translateX |-> 0, translateY |-> SlideDistance * left,
                opacity |-> slideOpacity]
          [] p.enterAnimation = "from-top" ->
               [blur |-> 0, translateX |-> 0, translateY |-> (0 - SlideDistance) * left,
                opacity |-> slideOpacity]
          [] p.enterAnimation = "from-left" ->
               [blur |-> 0, translateX |-> (0 - SlideDistance) * left, translateY |-> 0,
                opacity |-> slideOpacity]
          [] p.enterAnimation = "from-right" ->
               [blur |-> 0, translateX |-> SlideDistance * left, translateY |-> 0,
                opacity |-> slideOpacity]
          [] OTHER ->
               [blur |-> 0, translateX |-> 0, translateY |-> 0, opacity |-> EaseDen]

\* frames into the exit animation: extrapolateLeft "clamp", the right side extends
ExitElapsed(f, exitStart) == Max2(0, f - exitStart)

\* exitEnd = durationInFrames - exitBuffer
ExitEnd(p, durationInFrames) ==
    durationInFrames - (IF IsSlideExit(p.exitAnimation) THEN CompositionExitBuffer ELSE 0)

\* the exit animation at frame f; Easing.in(Easing.cubic)(t) = t^3
calculateExitAnimation(p, f, durationInFrames) ==
    LET exitStart == ExitEnd(p, durationInFrames) - AnimationDuration
        done      == Cube(ExitElapsed(f, exitStart))
        slideOpacity == EaseDen - done
    IN  CASE p.exitAnimation = "blur" ->
               [blur |-> MaxBlur * done, translateX |-> 0, translateY |-> 0,
                opacity |-> EaseDen]
          [] p.exitAnimation = "to-bottom" ->
               [blur |-> 0, translateX |-> 0, translateY |-> SlideDistance * done,
                opacity |-> slideOpacity]
          [] p.exitAnimation = "to-top" ->
               [blur |-> 0, translateX |-> 0, translateY |-> (0 - SlideDistance) * done,
                opacity |-> slideOpacity]
          [] p.exitAnimation = "to-left" ->
               [blur |-> 0, translateX |-> (0 - SlideDistance) * done, translateY |-> 0,
                opacity |-> slideOpacity]
          [] p.exitAnimation = "to-right" ->
               [blur |-> 0, translateX |-> SlideDistance * done, translateY |-> 0,
                opacity |-> slideOpacity]
          [] OTHER ->
               [blur |-> 0, translateX |-> 0, translateY |-> 0, opacity |-> EaseDen]

\* rotations are numerators over 2 * durationInFrames degrees (-7.5 + 15 f / D),
\* the scale a numerator over 100 * durationInFrames (1 + 0.05 f / D)
calculateCameraTransform(p, f, durationInFrames) ==
    LET D      == durationInFrames
        t      == Min2(f, D)
        rising == 30 * t - 15 * D
        slow   == 100 * D + 5 * t
    IN  CASE p.cameraMovement = "left-right" ->
               [rotateX |-> 0, rotateY |-> rising, scale |-> slow]
          [] p.cameraMovement = "right-left" ->
               [rotateX |-> 0, rotateY |-> 0 - rising, scale |-> slow]
          [] p.cameraMovement = "up-down" ->
               [rotateX |-> 0 - rising, rotateY |-> 0, scale |-> slow]
          [] p.cameraMovement = "down-up" ->
               [rotateX |-> rising, rotateY |-> 0, scale |-> slow]
          [] p.cameraMovement = "zoom-in" ->
               [rotateX |-> 0, rotateY |-> 0, scale |-> 100 * D + 15 * t]
          [] p.cameraMovement = "zoom-out" ->
               [rotateX |-> 0, rotateY |-> 0, scale |-> 115 * D - 15 * t]
          [] OTHER ->
               [rotateX |-> 0, rotateY |-> 0, scale |-> 100 * D]

\* blur and translate are summed, opacity is the minimum
CombinedTransform(enterAnim, exitAnim) ==
    [blur       |-> enterAnim.blur + exitAnim.blur,
     translateX |-> enterAnim.translateX + exitAnim.translateX,
     translateY |-> enterAnim.translateY + exitAnim.translateY,
     opacity    |-> Min2(enterAnim.opacity, exitAnim.opacity)]

NoAnimation == [blur |-> 0, translateX |-> 0, translateY |-> 0, opacity |-> EaseDen]

---------------------------------------------------------------------------
(* HighlightComposition: what one frame shows *)

\* padding = 100
Padding == 100

\* displayWidth and displayHeight, as fractions: the image fitted into the
\* composition less its padding
DisplaySize(p) ==
    LET compositionWidth  == 1920
        compositionHeight == 1080
        availableWidth    == compositionWidth - Padding * 2
        availableHeight   == compositionHeight - Padding * 2
    IN  IF p.imageWidth * availableHeight > availableWidth * p.imageHeight
        THEN [width  |-> Reduce(availableWidth, 1),
              height |-> Reduce(availableWidth * p.imageHeight, p.imageWidth)]
        ELSE [width  |-> Reduce(availableHeight * p.imageWidth, p.imageHeight),
              height |-> Reduce(availableHeight, 1)]

HighlightComposition(p, words, f) ==
    LET T == TotalHighlightFrames(p, words)
        animationFrame == HighlightFrame(p, f)
        scale == ScaleFactor(p)
        sp == IF words = <<>> THEN <<>> ELSE ClusterSpans(words)
        \* useVideoConfig(): the duration calculateMetadata gave the clip
        durationInFrames == calculateMetadata(p, words).durationInFrames
    IN  [highlightStartFrame  |-> HighlightStartFrame(p),
         totalHighlightFrames |-> T,
         highlightFrame       |-> animationFrame,
         totalPixelWidth      |-> TotalPixelWidth(sp, scale) * T,
         distanceTraveled     |-> DistanceTraveled(sp, animationFrame, T, scale),
         highlight |-> IF p.markingMode = "highlight"
                       THEN RoughHighlighter(words, animationFrame, T, scale)
                       ELSE <<>>,
         strokes   |-> IF p.markingMode \in {"circle", "underline"}
                       THEN SvgStrokes(words, animationFrame, T)
                       ELSE <<>>,
         unblur    |-> IF p.markingMode = "unblur"
                       THEN UnblurLayer(p, words, f)
                       ELSE NoUnblur,
         zoom      |-> calculateZoomTransform(p, f),
         durationInFrames |-> durationInFrames,
         displayWidth  |-> DisplaySize(p).width,
         displayHeight |-> DisplaySize(p).height,
         enterAnim |-> calculateEnterAnimation(p, f),
         exitAnim  |-> calculateExitAnimation(p, f, durationInFrames),
         combined  |-> CombinedTransform(calculateEnterAnimation(p, f),
                                         calculateExitAnimation(p, f, durationInFrames)),
         camera    |-> calculateCameraTransform(p, f, durationInFrames),
         \* blendMode = isDarkBackground(backgroundColor) ? "screen" : "multiply"
         blendMode |-> IF isDarkBackground(p.backgroundColor)
                       THEN "screen" ELSE "multiply"]

NoOut ==
    [highlightStartFrame |-> 0, totalHighlightFrames |-> 0, highlightFrame |-> 0,
     totalPixelWidth |-> 0, distanceTraveled |-> 0,
     highlight |-> <<>>, strokes |-> <<>>, unblur |-> NoUnblur,
     zoom |-> [scaleNum |-> 1, scaleDen |-> 1, translateXNum |-> 0,
               translateYNum |-> 0, translateDen |-> 1,
               progressNum |-> 0, progressDen |-> 1],
     durationInFrames |-> 0,
     displayWidth |-> [num |-> 0, den |-> 1], displayHeight |-> [num |-> 0, den |-> 1],
     enterAnim |-> NoAnimation, exitAnim |-> NoAnimation, combined |-> NoAnimation,
     camera |-> [rotateX |-> 0, rotateY |-> 0, scale |-> 0],
     blendMode |-> "multiply"]

---------------------------------------------------------------------------
(* States before anything has happened *)

NoBody ==
    [hasFilename |-> FALSE, hasBackgroundColor |-> FALSE,
     backgroundColor |-> <<255, 255, 255>>, markingMode |-> "highlight",
     leadInTenths |-> 0, leadOutTenths |-> 0, charsPerSecond |-> 1,
     zoomBox |-> NoZoomBox, zoomDurationTenths |-> 0, cameraMovement |-> "none",
     enterAnimation |-> "none", exitAnimation |-> "none",
     imageWidth |-> 0, imageHeight |-> 0, outputFormat |-> "landscape",
     frameRate |-> 0]

NoProps == ParsedProps(NoBody)

---------------------------------------------------------------------------
(* The zoom-box editor (WordSelector, App, useHistory).  Normalised         *)
(* coordinates are exact fractions [num, den] in lowest terms; a value that *)
(* is null in the code is the empty sequence, a value that is set is a      *)
(* sequence of one element.                                                 *)

RAdd(a, b) == Reduce(a.num * b.den + b.num * a.den, a.den * b.den)
RSub(a, b) == Reduce(a.num * b.den - b.num * a.den, a.den * b.den)
RMul(a, b) == Reduce(a.num * b.num, a.den * b.den)
\* a / b for b > 0
RDiv(a, b) == Reduce(a.num * b.den, a.den * b.num)
RLess(a, b) == a.num * b.den < b.num * a.den
RLeq(a, b) == a.num * b.den <= b.num * a.den
RMin(a, b) == IF RLess(b, a) THEN b ELSE a
RMax(a, b) == IF RLess(a, b) THEN b ELSE a
RAbs(a) == [num |-> Abs(a.num), den |-> a.den]
RZero == Reduce(0, 1)
ROne == Reduce(1, 1)

\* imageWidth / imageHeight
ImageAspect(img) == Reduce(img.imageWidth, img.imageHeight)
\* outW / outH
VideoAspect(outputFormat) ==
    Reduce(OUTPUT_DIMENSIONS[outputFormat].width, OUTPUT_DIMENSIONS[outputFormat].height)

\* Math.max(0.05, width) and box.width > 0.05
MinZoomWidth == Reduce(5, 100)

\* calculateZoomBox up to "Ensure box fits within image"
ClampedZoomBox(img, startX, startY, endX, endY) ==
    LET imageAspect == ImageAspect(img)
        videoAspect == VideoAspect(img.outputFormat)
        width0  == RAbs(RSub(endX, startX))
        height0 == RDiv(RMul(width0, imageAspect), videoAspect)
        x0 == IF RLeq(startX, endX) THEN startX ELSE RSub(startX, width0)
        y0 == IF RLeq(startY, endY) THEN startY ELSE RSub(startY, height0)
        x  == RMax(RZero, RMin(x0, RSub(ROne, width0)))
        y  == RMax(RZero, RMin(y0, RSub(ROne, height0)))
        width1  == IF RLess(ROne, RAdd(x, width0)) THEN RSub(ROne, x) ELSE width0
        tooTall == RLess(ROne, RAdd(y, height0))
        height2 == IF tooTall THEN RSub(ROne, y) ELSE height0
        width2  == IF tooTall THEN RDiv(RMul(height2, videoAspect), imageAspect) ELSE width1
    IN  [x |-> x, y |-> y, width |-> width2, height |-> height2]

\* calculateZoomBox: the clamped box, then "Minimum size"
calculateZoomBox(img, startX, startY, endX, endY) ==
    LET clamped == ClampedZoomBox(img, startX, startY, endX, endY)
        width   == RMax(MinZoomWidth, clamped.width)
        height  == RDiv(RMul(width, ImageAspect(img)), VideoAspect(img.outputFormat))
    IN  [x |-> clamped.x, y |-> clamped.y, width |-> width, height |-> height]

\* useHistory: maxSize
HistoryMaxSize == 50

\* s.slice(-n) for n > 0
LastN(s, n) == IF Len(s) <= n THEN s ELSE SubSeq(s, Len(s) - n + 1, Len(s))

\* a push that takes the value before it as the base, burst or not
PushedLatestBase(ed, next) ==
    [ed EXCEPT !.image = next, !.pendingBase = <<ed.image>>, !.timer = TRUE]

\* useHistory.push: the new value becomes current, the value before the burst
\* is kept as the pending base, and the debounce timer is (re)started
Pushed(ed, next) ==
    [ed EXCEPT !.image = next,
               !.pendingBase = IF ed.pendingBase = <<>> THEN <<ed.image>> ELSE ed.pendingBase,
               !.timer = TRUE]

\* the body of the debounce timer, which undo also runs to flush it
Committed(ed) ==
    [ed EXCEPT !.history = IF ed.pendingBase = <<>> THEN ed.history
                           ELSE Append(LastN(ed.history, HistoryMaxSize - 1), ed.pendingBase[1]),
               !.future = <<>>,
               !.pendingBase = <<>>,
               !.timer = FALSE]

\* the image state of the editor: ImageState with the two settings the zoom
\* box depends on.  videoPath is null or names a rendered video, which the
\* model identifies by the request it was rendered from.
NoImage ==
    [imageWidth |-> 1, imageHeight |-> 1, outputFormat |-> "landscape",
     markingMode |-> "highlight", zoomBox |-> <<>>, selectedWords |-> <<>>,
     videoPath |-> <<>>]

\* what the model remembers of the calls made on useHistory, which the code
\* does not keep: the last call, the state before the first push of the
\* current burst and the state its last push set, the number of pushes of the
\* burst (2 standing for two or more), how far the burst has got ("open"
\* after a push, "undone" after the undo that follows it, "redone" after the
\* redo that follows that undo), and whether a push was made after the last
\* undo
NoTrace ==
    [op |-> "none", from |-> NoImage, to |-> NoImage, pushes |-> 0,
     phase |-> "none", pushedSinceUndo |-> FALSE]

\* the editor before an image is loaded
NoEditor ==
    [image       |-> NoImage,
     trace       |-> NoTrace,
     render      |-> <<>>,
     drag        |-> <<>>,
     move        |-> <<>>,
     preview     |-> <<>>,
     history     |-> <<>>,
     future      |-> <<>>,
     pendingBase |-> <<>>,
     timer       |-> FALSE]

\* x >= zoomBox.x && x <= zoomBox.x + zoomBox.width && y >= ... && y <= ...
InsideBox(box, x, y) ==
    /\ RLeq(box.x, x) /\ RLeq(x, RAdd(box.x, box.width))
    /\ RLeq(box.y, y) /\ RLeq(y, RAdd(box.y, box.height))

\* Math.max(0, Math.min(1, v))
ClampUnit(v) == RMax(RZero, RMin(ROne, v))

\* handleZoomPointerDown at the point (x, y).  There is one pointer: it goes
\* down when it is up, that is when no draw and no move is in progress.
ZoomPointerDown(x, y) ==
    /\ editor.image.markingMode = "zoom"
    /\ editor.drag = <<>> /\ editor.move = <<>>
    /\ Len(editor.history) + Len(editor.future) < MaxHistory
    /\ LET zoomBox == editor.image.zoomBox
       IN  IF zoomBox # <<>> /\ InsideBox(zoomBox[1], x, y)
           THEN editor' = [editor EXCEPT !.move =
                               <<[offsetX |-> RSub(x, zoomBox[1].x),
                                  offsetY |-> RSub(y, zoomBox[1].y)]>>]
           ELSE editor' = [editor EXCEPT !.drag =
                               <<[startX |-> x, startY |-> y,
                                  currentX |-> x, currentY |-> y]>>,
                                         !.preview = <<>>]
    /\ UNCHANGED <<selectedWords, spans, pc, body, props, meta, frame, out, server>>

\* handleZoomPointerMove with the pointer at (px, py)
ZoomPointerMove(px, py) ==
    /\ editor.image.markingMode = "zoom"
    /\ LET x == ClampUnit(px)
           y == ClampUnit(py)
           zoomBox == editor.image.zoomBox
       IN  IF editor.move # <<>> /\ zoomBox # <<>>
           THEN LET newX == RMax(RZero, RMin(RSub(ROne, zoomBox[1].width),
                                             RSub(x, editor.move[1].offsetX)))
                    newY == RMax(RZero, RMin(RSub(ROne, zoomBox[1].height),
                                             RSub(y, editor.move[1].offsetY)))
                IN  editor' = [editor EXCEPT !.preview =
                                   <<[zoomBox[1] EXCEPT !.x = newX, !.y = newY]>>]
           ELSE /\ editor.drag # <<>>
                /\ editor' = [editor EXCEPT
                       !.drag = <<[editor.drag[1] EXCEPT !.currentX = x, !.currentY = y]>>,
                       !.preview = <<calculateZoomBox(editor.image, editor.drag[1].startX,
                                                      editor.drag[1].startY, x, y)>>]
    /\ UNCHANGED <<selectedWords, spans, pc, body, props, meta, frame, out, server>>

\* handleZoomPointerUp; the listener is attached while markingMode is "zoom".
\* onZoomBoxChange pushes the image with the new box.
ZoomPointerUp ==
    /\ editor.image.markingMode = "zoom"
    /\ editor.move # <<>> \/ editor.drag # <<>>
    /\ IF editor.move # <<>>
       THEN LET saved == IF editor.preview # <<>>
                         THEN Pushed(editor, [editor.image EXCEPT !.zoomBox = editor.preview,
                                                                 !.videoPath = <<>>])
                         ELSE editor
            IN  editor' = [saved EXCEPT !.move = <<>>, !.preview = <<>>]
       ELSE LET current == editor.drag[1]
                box   == calculateZoomBox(editor.image, current.startX, current.startY,
                                          current.currentX, current.currentY)
                saved == IF RLess(MinZoomWidth, box.width)
                         THEN Pushed(editor, [editor.image EXCEPT !.zoomBox = <<box>>,
                                                                 !.videoPath = <<>>])
                         ELSE editor
            IN  editor' = [saved EXCEPT !.drag = <<>>, !.preview = <<>>]
    /\ UNCHANGED <<selectedWords, spans, pc, body, props, meta, frame, out, server>>

\* App.updateSettings(partial): the settings are merged, nothing else of the
\* image changes
UpdateSettings(partial) ==
    /\ Len(editor.history) + Len(editor.future) < MaxHistory
    /\ LET next == [editor.image EXCEPT
                        !.outputFormat = IF "outputFormat" \in DOMAIN partial
                                         THEN partial.outputFormat ELSE @,
                        !.markingMode  = IF "markingMode" \in DOMAIN partial
                                         THEN partial.markingMode ELSE @,
                        !.videoPath    = <<>>]
       IN  editor' = Pushed(editor, next)
    /\ UNCHANGED <<selectedWords, spans, pc, body, props, meta, frame, out, server>>

\* the format selector: updateSettings({ outputFormat: format })
ChangeOutputFormat(format) == UpdateSettings([outputFormat |-> format])

\* the mode selector: updateSettings({ markingMode: mode })
ChangeMarkingMode(mode) == UpdateSettings([markingMode |-> mode])

\* App.handleLoadPreset: updateSettings with every setting of the preset
LoadPreset(preset) ==
    UpdateSettings([outputFormat |-> preset.outputFormat, markingMode |-> preset.markingMode])

\* the debounce timer of useHistory.push fires
DebounceFire ==
    /\ editor.timer
    /\ editor' = Committed(editor)
    /\ UNCHANGED <<selectedWords, spans, pc, body, props, meta, frame, out, server>>

\* useHistory.undo: a pending debounce is flushed, then the last snapshot
\* becomes current and the value it replaces goes on the redo stack
Undone(ed) ==
    LET flushed == IF ed.timer THEN Committed(ed) ELSE ed
    IN  IF flushed.history = <<>> THEN flushed
        ELSE [flushed EXCEPT
                  !.image   = flushed.history[Len(flushed.history)],
                  !.history = SubSeq(flushed.history, 1, Len(flushed.history) - 1),
                  !.future  = <<flushed.image>> \o flushed.future]

\* useHistory.redo: nothing with an empty redo stack
Redone(ed) ==
    IF ed.future = <<>> THEN ed
    ELSE [ed EXCEPT !.image   = ed.future[1],
                    !.future  = Tail(ed.future),
                    !.history = Append(ed.history, ed.image)]

\* Cmd+Z
Undo ==
    /\ editor.history # <<>> \/ editor.timer
    /\ editor' = Undone(editor)
    /\ UNCHANGED <<selectedWords, spans, pc, body, props, meta, frame, out, server>>

\* Cmd+Shift+Z
Redo ==
    /\ editor.future # <<>>
    /\ editor' = Redone(editor)
    /\ UNCHANGED <<selectedWords, spans, pc, body, props, meta, frame, out, server>>

\* the body of the request handleRender sends for an image
RenderRequest(img) ==
    [selectedWords |-> img.selectedWords,
     zoomBox       |-> img.zoomBox,
     imageWidth    |-> img.imageWidth,
     imageHeight   |-> img.imageHeight,
     markingMode   |-> img.markingMode,
     outputFormat  |-> img.outputFormat]

\* App.handleRender up to the fetch: nothing without a selection and a zoom
\* box; the render button and Cmd+Enter are off while a render is running
HandleRender ==
    /\ editor.render = <<>>
    /\ editor.image.selectedWords # <<>> \/ editor.image.zoomBox # <<>>
    /\ editor' = [editor EXCEPT !.render = <<RenderRequest(editor.image)>>]
    /\ UNCHANGED <<selectedWords, spans, pc, body, props, meta, frame, out, server>>

\* the stream ends with a videoPath: setImage((prev) => ({ ...prev, videoPath }))
RenderDone ==
    /\ editor.render # <<>>
    /\ editor' = [editor EXCEPT !.image.videoPath = editor.render,
                                !.render = <<>>]
    /\ UNCHANGED <<selectedWords, spans, pc, body, props, meta, frame, out, server>>

\* the request fails or the stream carries an error event
RenderFailed ==
    /\ editor.render # <<>>
    /\ editor' = [editor EXCEPT !.render = <<>>]
    /\ UNCHANGED <<selectedWords, spans, pc, body, props, meta, frame, out, server>>

\* WordSelector onSelectionChange
OnSelectionChange(words) ==
    /\ editor' = Pushed(editor, [editor.image EXCEPT !.selectedWords = words,
                                                     !.videoPath = <<>>])
    /\ UNCHANGED <<selectedWords, spans, pc, body, props, meta, frame, out, server>>

\* WordSelector onZoomBoxChange
OnZoomBoxChange(zoomBox) ==
    /\ editor' = Pushed(editor, [editor.image EXCEPT !.zoomBox = zoomBox,
                                                     !.videoPath = <<>>])
    /\ UNCHANGED <<selectedWords, spans, pc, body, props, meta, frame, out, server>>

\* a change of the output format pushed on the history, with the trace
HistoryPush(format) ==
    /\ Len(editor.history) + Len(editor.future) < MaxSnapshots
    /\ LET next == [editor.image EXCEPT !.outputFormat = format, !.videoPath = <<>>]
           t == editor.trace
       IN  editor' = [Pushed(editor, next) EXCEPT !.trace =
                         [op     |-> "push",
                          from   |-> IF editor.timer THEN t.from ELSE editor.image,
                          to     |-> next,
                          pushes |-> IF editor.timer THEN Min2(2, t.pushes + 1) ELSE 1,
                          phase  |-> "open",
                          pushedSinceUndo |-> TRUE]]
    /\ UNCHANGED <<selectedWords, spans, pc, body, props, meta, frame, out, server>>

\* the debounce timer fires, with the trace
HistoryTimer ==
    /\ editor.timer
    /\ editor' = [Committed(editor) EXCEPT !.trace.op = "timer"]
    /\ UNCHANGED <<selectedWords, spans, pc, body, props, meta, frame, out, server>>

\* undo() with something to undo, with the trace
HistoryUndo ==
    /\ editor.history # <<>> \/ editor.timer
    /\ editor' = [Undone(editor) EXCEPT
                      !.trace.op = "undo",
                      !.trace.phase = IF @ = "open" THEN "undone" ELSE "none",
                      !.trace.pushedSinceUndo = FALSE]
    /\ UNCHANGED <<selectedWords, spans, pc, body, props, meta, frame, out, server>>

\* redo() with a redo stack that is not empty, with the trace
HistoryRedo ==
    /\ editor.future # <<>>
    /\ editor' = [Redone(editor) EXCEPT
                      !.trace.op = "redo",
                      !.trace.phase = IF @ = "undone" THEN "redone" ELSE "none"]
    /\ UNCHANGED <<selectedWords, spans, pc, body, props, meta, frame, out, server>>

---------------------------------------------------------------------------
(* The render service (server/services/remotionRenderer.ts) and the stream  *)
(* handler (server/routes/render.ts).  A call is one /api/render-stream     *)
(* request that passed validation; its stage is the await it is suspended   *)
(* at.  JavaScript runs each stretch between two awaits without             *)
(* interruption, so an action is one such stretch.  bundleCalls counts the  *)
(* invocations of bundle(), a number the code does not keep.                *)

Calls == 1..MaxCalls

NoCall == [stage |-> "idle", events |-> <<>>, closed |-> FALSE]

\* no request received, nothing bundled
NoServer ==
    [bundleLocation |-> <<>>,
     isBundling     |-> FALSE,
     bundleCalls    |-> 0,
     calls          |-> [c \in Calls |-> NoCall]]

\* sendEvent(data): one server-sent event on the stream of call c
SendEvent(srv, c, stage, hasVideoPath) ==
    [srv EXCEPT !.calls[c].events = Append(@, [stage |-> stage, videoPath |-> hasVideoPath])]

\* controller.close()
CloseStream(srv, c) == [srv EXCEPT !.calls[c].stage = "closed", !.calls[c].closed = TRUE]

\* a caller that ignores the isBundling flag
NeverWaits(srv) == FALSE

\* if (isBundling) { while (isBundling) await ... }
MustWait(srv) == srv.isBundling

\* ensureBundle returned the bundle: onProgress 'composing', then the awaits
\* of mkdir and selectComposition
Composing(srv, c) ==
    [SendEvent(srv, c, "composing", FALSE) EXCEPT !.calls[c].stage = "composing"]

\* isBundling = true; onProgress 'bundling'; await bundle(...)
Bundling(srv, c) ==
    [SendEvent(srv, c, "bundling", FALSE) EXCEPT
        !.isBundling = TRUE,
        !.bundleCalls = @ + 1,
        !.calls[c].stage = "bundling"]

\* ensureBundle from its first line, or from the line after the polling loop
ensureBundle(srv, c) ==
    IF srv.bundleLocation # <<>> THEN Composing(srv, c)
    ELSE Bundling(srv, c)

\* handleRenderStream starts renderHighlightVideo, which calls ensureBundle
StartRenderStream(c) ==
    /\ server.calls[c].stage = "idle"
    /\ server' = IF server.bundleLocation = <<>> /\ MustWait(server)
                 THEN [server EXCEPT !.calls[c].stage = "polling"]
                 ELSE ensureBundle(server, c)
    /\ UNCHANGED <<selectedWords, spans, pc, body, props, meta, frame, out, editor>>

\* the 100 ms timer of a polling caller fires and finds isBundling false
PollWake(c) ==
    /\ server.calls[c].stage = "polling"
    /\ ~server.isBundling
    /\ server' = ensureBundle(server, c)
    /\ UNCHANGED <<selectedWords, spans, pc, body, props, meta, frame, out, editor>>

\* bundle() resolves: bundleLocation is assigned, isBundling = false
BundleResolve(c) ==
    /\ server.calls[c].stage = "bundling"
    /\ server' = Composing([server EXCEPT !.bundleLocation = <<"bundle">>,
                                          !.isBundling = FALSE], c)
    /\ UNCHANGED <<selectedWords, spans, pc, body, props, meta, frame, out, editor>>

\* the catch block of handleRenderStream: an 'error' event, then close
StreamError(srv, c) == CloseStream(SendEvent(srv, c, "error", FALSE), c)

\* bundle() rejects: the await throws out of ensureBundle
BundleReject(c) ==
    /\ server.calls[c].stage = "bundling"
    /\ server' = StreamError(server, c)
    /\ UNCHANGED <<selectedWords, spans, pc, body, props, meta, frame, out, editor>>

\* selectComposition resolves: onProgress 'rendering' (20), await renderMedia
SelectComposition(c) ==
    /\ server.calls[c].stage = "composing"
    /\ server' = [SendEvent(server, c, "rendering", FALSE) EXCEPT
                      !.calls[c].stage = "rendering"]
    /\ UNCHANGED <<selectedWords, spans, pc, body, props, meta, frame, out, editor>>

\* renderMedia reports progress
RenderProgress(c) ==
    /\ server.calls[c].stage = "rendering"
    /\ Len(SelectSeq(server.calls[c].events, LAMBDA ev : ev.stage = "rendering"))
           <= MaxProgressEvents
    /\ server' = SendEvent(server, c, "rendering", FALSE)
    /\ UNCHANGED <<selectedWords, spans, pc, body, props, meta, frame, out, editor>>

\* mkdir, selectComposition or renderMedia rejects
RenderReject(c) ==
    /\ server.calls[c].stage \in {"composing", "rendering"}
    /\ server' = StreamError(server, c)
    /\ UNCHANGED <<selectedWords, spans, pc, body, props, meta, frame, out, editor>>

\* renderMedia resolves: renderHighlightVideo reports 'done' and returns, the
\* handler sends 'done' with the videoPath and closes the stream
RenderMediaResolve(c) ==
    /\ server.calls[c].stage = "rendering"
    /\ server' = CloseStream(SendEvent(SendEvent(server, c, "done", FALSE),
                                       c, "done", TRUE), c)
    /\ UNCHANGED <<selectedWords, spans, pc, body, props, meta, frame, out, editor>>

---------------------------------------------------------------------------
(* The editor and one clustering run *)

\* w.left === word.left && w.top === word.top && w.text === word.text
SameWord(w, word) == w.left = word.left /\ w.top = word.top /\ w.text = word.text

\* WordSelector.toggleWord: deselect every match, or append to the selection
ToggleWord(word) ==
    /\ pc \in {"editing", "clustered"}
    /\ LET isSelected == \E i \in 1..Len(selectedWords) : SameWord(selectedWords[i], word)
       IN  selectedWords' =
               IF isSelected
               THEN SelectSeq(selectedWords, LAMBDA w : ~SameWord(w, word))
               ELSE Append(selectedWords, word)
    /\ Len(selectedWords') <= MaxSelected
    /\ spans' = <<>>
    /\ pc' = "editing"
    /\ UNCHANGED <<body, props, meta, frame, out, editor, server>>

\* the annotation layer clusters the selection it is given
ClusterSelection ==
    /\ pc = "editing"
    /\ selectedWords # <<>>
    /\ spans' = ClusterSpans(selectedWords)
    /\ pc' = "clustered"
    /\ UNCHANGED <<selectedWords, body, props, meta, frame, out, editor, server>>

InitCluster ==
    /\ selectedWords = <<>>
    /\ spans = <<>>
    /\ pc = "editing"
    /\ body = NoBody
    /\ props = NoProps
    /\ meta = NoMeta
    /\ frame = 0
    /\ out = NoOut
    /\ editor = NoEditor
    /\ server = NoServer

NextCluster ==
    \/ \E word \in OcrWords : ToggleWord(word)
    \/ ClusterSelection

SpecCluster == InitCluster /\ [][NextCluster]_vars

---------------------------------------------------------------------------
(* A render request: parse, resolve the duration, render frame by frame *)

\* handleRender / handleRenderStream up to the call of the renderer
ParseRenderBody ==
    /\ pc = "request"
    /\ IF ParseError(body, selectedWords) = "ok"
       THEN /\ props' = ParsedProps(body)
            /\ pc' = "parsed"
       ELSE /\ props' = props
            /\ pc' = "rejected"
    /\ UNCHANGED <<selectedWords, spans, body, meta, frame, out, editor, server>>

\* handleRender: the accepted props are handed to renderHighlightVideo
RenderHighlightVideo ==
    /\ pc = "parsed"
    /\ pc' = "rendering"
    /\ UNCHANGED <<selectedWords, spans, body, props, meta, frame, out, editor, server>>

\* Root.tsx calculateMetadata, run once per render
CalculateMetadata ==
    /\ pc = "parsed"
    /\ meta' = calculateMetadata(props, selectedWords)
    /\ pc' = "metadata"
    /\ UNCHANGED <<selectedWords, spans, body, props, frame, out, editor, server>>

\* the composition renders the next frame of the clip
RenderFrame ==
    /\ pc \in {"metadata", "frames"}
    /\ LET f == IF pc = "metadata" THEN 0 ELSE frame + 1
       IN  /\ f < meta.durationInFrames
           /\ frame' = f
           /\ out' = HighlightComposition(props, selectedWords, f)
           /\ spans' = IF props.markingMode \in ModesWithSpans \cup {"unblur"}
                          /\ selectedWords # <<>>
                       THEN ClusterSpans(selectedWords)
                       ELSE <<>>
    /\ pc' = "frames"
    /\ UNCHANGED <<selectedWords, body, props, meta, editor, server>>

---------------------------------------------------------------------------
(* The Duration Resolver on its own: requests of every mode and frame rate, *)
(* resolved but not rendered.                                               *)

\* longest run of 50-character words a request of this specification carries
MaxLongWords == 3

Word50 == "pneumonoultramicroscopicsilicovolcanoconiosislike!"

WordAt(text, left) ==
    [text |-> text, left |-> left, top |-> 0, width |-> 10, height |-> 20]

\* n words of 50 characters each, side by side
LongWords(n) == [i \in 1..n |-> WordAt(Word50, 100 * i)]

\* selections of 0, 0 (one empty word), 1, 4, 15 and 50, 100, 150, ... characters
DurationSelections ==
    {<<>>, <<WordAt("", 0)>>, <<WordAt("a", 0)>>, <<WordAt("word", 0)>>,
     <<WordAt("word", 0), WordAt("highlighted", 60)>>}
        \cup {LongWords(n) : n \in 1..MaxLongWords}

DurationBodies ==
    [hasFilename        : BOOLEAN,
     hasBackgroundColor : {TRUE},
     backgroundColor    : {<<255, 255, 255>>},
     markingMode        : MarkingModes,
     leadInTenths       : {0, 5, 25},
     leadOutTenths      : {0, 20},
     charsPerSecond     : {7, 15},
     zoomBox            : {NoZoomBox, SomeZoomBox},
     zoomDurationTenths : {13, 15},
     cameraMovement     : {"left-right"},
     enterAnimation     : {"blur"},
     exitAnimation      : {"none", "blur", "to-left"},
     imageWidth         : {1000},
     imageHeight        : {400},
     outputFormat       : {"landscape"},
     frameRate          : FrameRates]

InitDuration ==
    /\ selectedWords \in DurationSelections
    /\ body \in DurationBodies
    /\ spans = <<>>
    /\ pc = "request"
    /\ props = NoProps
    /\ meta = NoMeta
    /\ frame = 0
    /\ out = NoOut
    /\ editor = NoEditor
    /\ server = NoServer

NextDuration ==
    \/ ParseRenderBody
    \/ CalculateMetadata

SpecDuration == InitDuration /\ [][NextDuration]_vars

---------------------------------------------------------------------------
(* A render from request to last frame.  The selection is a subset of four  *)
(* words in two rows: the upper two split into two spans, the lower two     *)
(* merge into one.                                                          *)

RevealWords ==
    {w \in OcrWords : /\ w.width = 10
                      /\ <<w.left, w.top>> \in {<<0, 0>>, <<75, 0>>, <<0, 20>>, <<60, 20>>}}

\* most words a rendered selection holds
MaxRevealWords == 3

\* a subset of the words as a list, left to right and top to bottom
RECURSIVE ListOf(_)
ListOf(S) ==
    IF S = {} THEN <<>>
    ELSE LET first == CHOOSE w \in S :
                         \A v \in S : <<w.top, w.left>> = <<v.top, v.left>>
                                      \/ w.top < v.top
                                      \/ (w.top = v.top /\ w.left < v.left)
         IN  <<first>> \o ListOf(S \ {first})

RevealSelections ==
    {ListOf(S) : S \in {T \in SUBSET RevealWords : Cardinality(T) <= MaxRevealWords}}

RevealBodies ==
    [hasFilename        : {TRUE},
     hasBackgroundColor : {TRUE},
     backgroundColor    : {<<255, 255, 255>>},
     markingMode        : MarkingModes,
     leadInTenths       : {0, 15},
     leadOutTenths      : {5},
     charsPerSecond     : {7},
     zoomBox            : {NoZoomBox, SomeZoomBox},
     zoomDurationTenths : {5},
     cameraMovement     : {"left-right"},
     enterAnimation     : {"blur"},
     exitAnimation      : {"none"},
     imageWidth         : {1000},
     imageHeight        : {400},
     outputFormat       : {"landscape"},
     frameRate          : FrameRates]

InitReveal ==
    /\ selectedWords \in RevealSelections
    /\ body \in RevealBodies
    /\ spans = <<>>
    /\ pc = "request"
    /\ props = NoProps
    /\ meta = NoMeta
    /\ frame = 0
    /\ out = NoOut
    /\ editor = NoEditor
    /\ server = NoServer

NextReveal ==
    \/ ParseRenderBody
    \/ CalculateMetadata
    \/ RenderFrame

SpecReveal == InitReveal /\ [][NextReveal]_vars

---------------------------------------------------------------------------
(* A render under every combination of enter animation, exit animation,    *)
(* camera movement and frame rate: one selected word, highlight mode.      *)

TransformSelections == {<<WordAt("word", 0)>>}

TransformBodies ==
    [hasFilename        : {TRUE},
     hasBackgroundColor : {TRUE},
     backgroundColor    : {<<255, 255, 255>>},
     markingMode        : {"highlight"},
     leadInTenths       : {10},
     leadOutTenths      : {5},
     charsPerSecond     : {15},
     zoomBox            : {NoZoomBox},
     zoomDurationTenths : {15},
     cameraMovement     : CameraMovements,
     enterAnimation     : EnterAnimations,
     exitAnimation      : ExitAnimations,
     imageWidth         : {1000},
     imageHeight        : {400},
     outputFormat       : {"landscape"},
     frameRate          : FrameRates]

InitTransform ==
    /\ selectedWords \in TransformSelections
    /\ body \in TransformBodies
    /\ spans = <<>>
    /\ pc = "request"
    /\ props = NoProps
    /\ meta = NoMeta
    /\ frame = 0
    /\ out = NoOut
    /\ editor = NoEditor
    /\ server = NoServer

NextTransform ==
    \/ ParseRenderBody
    \/ CalculateMetadata
    \/ RenderFrame

SpecTransform == InitTransform /\ [][NextTransform]_vars

---------------------------------------------------------------------------
(* Renders that start their reveal after different lead-ins: highlight,    *)
(* unblur and zoom mode, with and without a zoom box, at every frame rate. *)

\* zoom boxes in percent of a 1600 x 900 image, all 16:9 like the output
ZoomBoxes ==
    {NoZoomBox, SomeZoomBox,
     [present |-> TRUE, x |-> 0, y |-> 0, width |-> 50, height |-> 50],
     [present |-> TRUE, x |-> 60, y |-> 30, width |-> 25, height |-> 25]}

ZoomSelections == {<<>>, <<WordAt("word", 0)>>}

ZoomBodies ==
    [hasFilename        : {TRUE},
     hasBackgroundColor : {TRUE},
     backgroundColor    : {<<255, 255, 255>>},
     markingMode        : {"highlight", "unblur", "zoom"},
     leadInTenths       : {5, 15},
     leadOutTenths      : {5},
     charsPerSecond     : {15},
     zoomBox            : ZoomBoxes,
     zoomDurationTenths : {5, 13},
     cameraMovement     : {"none"},
     enterAnimation     : {"blur", "from-left", "none"},
     exitAnimation      : {"none"},
     imageWidth         : {1600},
     imageHeight        : {900},
     outputFormat       : {"landscape"},
     frameRate          : FrameRates]

InitZoom ==
    /\ selectedWords \in ZoomSelections
    /\ body \in ZoomBodies
    /\ spans = <<>>
    /\ pc = "request"
    /\ props = NoProps
    /\ meta = NoMeta
    /\ frame = 0
    /\ out = NoOut
    /\ editor = NoEditor
    /\ server = NoServer

NextZoom ==
    \/ ParseRenderBody
    \/ CalculateMetadata
    \/ RenderFrame

SpecZoom == InitZoom /\ [][NextZoom]_vars

---------------------------------------------------------------------------
(* Renders of an empty selection in every marking mode, next to renders of  *)
(* one word.  A body with neither words nor a zoom box is rejected at the   *)
(* boundary, so the empty selections that are rendered carry a zoom box.    *)

EmptyBodies ==
    [hasFilename        : {TRUE},
     hasBackgroundColor : {TRUE},
     backgroundColor    : {<<255, 255, 255>>},
     markingMode        : MarkingModes,
     leadInTenths       : {5, 15},
     leadOutTenths      : {5},
     charsPerSecond     : {15},
     zoomBox            : {NoZoomBox, SomeZoomBox},
     zoomDurationTenths : {5, 13},
     cameraMovement     : {"none"},
     enterAnimation     : {"blur"},
     exitAnimation      : {"none"},
     imageWidth         : {1600},
     imageHeight        : {900},
     outputFormat       : {"landscape"},
     frameRate          : FrameRates]

InitEmpty ==
    /\ selectedWords \in ZoomSelections
    /\ body \in EmptyBodies
    /\ spans = <<>>
    /\ pc = "request"
    /\ props = NoProps
    /\ meta = NoMeta
    /\ frame = 0
    /\ out = NoOut
    /\ editor = NoEditor
    /\ server = NoServer

NextEmpty ==
    \/ ParseRenderBody
    \/ CalculateMetadata
    \/ RenderFrame

SpecEmpty == InitEmpty /\ [][NextEmpty]_vars

---------------------------------------------------------------------------
(* Renders in every output format of images wide, tall and square *)

DisplayImages ==
    {[imageWidth |-> 1600, imageHeight |-> 900],
     [imageWidth |-> 900, imageHeight |-> 1600],
     [imageWidth |-> 1000, imageHeight |-> 1000],
     [imageWidth |-> 4000, imageHeight |-> 500]}

DisplayBodies ==
    {[hasFilename        |-> TRUE,
      hasBackgroundColor |-> TRUE,
      backgroundColor    |-> <<255, 255, 255>>,
      markingMode        |-> "highlight",
      leadInTenths       |-> 10,
      leadOutTenths      |-> 0,
      charsPerSecond     |-> 15,
      zoomBox            |-> NoZoomBox,
      zoomDurationTenths |-> 13,
      cameraMovement     |-> "none",
      enterAnimation     |-> "none",
      exitAnimation      |-> "none",
      imageWidth         |-> img.imageWidth,
      imageHeight        |-> img.imageHeight,
      outputFormat       |-> format,
      frameRate          |-> 24] : img \in DisplayImages, format \in OutputFormats}

InitDisplay ==
    /\ selectedWords = <<WordAt("word", 0)>>
    /\ body \in DisplayBodies
    /\ spans = <<>>
    /\ pc = "request"
    /\ props = NoProps
    /\ meta = NoMeta
    /\ frame = 0
    /\ out = NoOut
    /\ editor = NoEditor
    /\ server = NoServer

NextDisplay ==
    \/ ParseRenderBody
    \/ CalculateMetadata
    \/ RenderFrame

SpecDisplay == InitDisplay /\ [][NextDisplay]_vars

---------------------------------------------------------------------------
(* Renders over backgrounds of different colours *)

Reds   == {0, 10, 12, 128, 255}
Greens == {10, 128, 173, 174, 204, 255}
Blues  == {10, 68, 128, 191, 225, 255}

BackgroundBodies ==
    [hasFilename        : {TRUE},
     hasBackgroundColor : {TRUE},
     backgroundColor    : Reds \X Greens \X Blues,
     markingMode        : {"highlight"},
     leadInTenths       : {10},
     leadOutTenths      : {0},
     charsPerSecond     : {15},
     zoomBox            : {NoZoomBox},
     zoomDurationTenths : {15},
     cameraMovement     : {"none"},
     enterAnimation     : {"blur"},
     exitAnimation      : {"none"},
     imageWidth         : {1000},
     imageHeight        : {400},
     outputFormat       : {"landscape"},
     frameRate          : {24}]

InitBackground ==
    /\ selectedWords \in TransformSelections
    /\ body \in BackgroundBodies
    /\ spans = <<>>
    /\ pc = "request"
    /\ props = NoProps
    /\ meta = NoMeta
    /\ frame = 0
    /\ out = NoOut
    /\ editor = NoEditor
    /\ server = NoServer

NextBackground ==
    \/ ParseRenderBody
    \/ CalculateMetadata
    \/ RenderFrame

SpecBackground == InitBackground /\ [][NextBackground]_vars

---------------------------------------------------------------------------
(* Requests at the boundary: bodies whose timing fields and frame rate lie  *)
(* inside and outside their valid ranges, parsed and handed to the renderer *)
(* or answered with an error.                                               *)

RequestSelections == {<<>>, <<WordAt("word", 0)>>}

RequestBodies ==
    [hasFilename        : BOOLEAN,
     hasBackgroundColor : {TRUE},
     backgroundColor    : {<<255, 255, 255>>},
     markingMode        : {"highlight", "zoom"},
     leadInTenths       : {0 - 5, 0, 10},
     leadOutTenths      : {0 - 5, 5},
     charsPerSecond     : {0 - 1, 0, 15},
     zoomBox            : {NoZoomBox, SomeZoomBox},
     zoomDurationTenths : {0 - 5, 13},
     cameraMovement     : {"left-right"},
     enterAnimation     : {"blur"},
     exitAnimation      : {"none"},
     imageWidth         : {1000},
     imageHeight        : {400},
     outputFormat       : {"landscape"},
     frameRate          : {0, 24, 25, 30, 60}]

InitRequest ==
    /\ selectedWords \in RequestSelections
    /\ body \in RequestBodies
    /\ spans = <<>>
    /\ pc = "request"
    /\ props = NoProps
    /\ meta = NoMeta
    /\ frame = 0
    /\ out = NoOut
    /\ editor = NoEditor
    /\ server = NoServer

NextRequest ==
    \/ ParseRenderBody
    \/ RenderHighlightVideo

SpecRequest == InitRequest /\ [][NextRequest]_vars

---------------------------------------------------------------------------
(* The editor in zoom mode: an image is loaded with the default settings;   *)
(* the user draws and moves zoom boxes, changes the output format and the   *)
(* marking mode, loads presets, and undoes and redoes.  The pointer visits  *)
(* four positions given in hundredths of the image.                        *)

EditorImages ==
    {[NoImage EXCEPT !.imageWidth = 1600, !.imageHeight = 900],
     [NoImage EXCEPT !.imageWidth = 900, !.imageHeight = 1600]}

EditorPoints ==
    {[x |-> Reduce(h[1], 100), y |-> Reduce(h[2], 100)] :
        h \in {<<0, 0>>, <<50, 50>>, <<97, 50>>, <<100, 100>>}}
EditorModes == {"highlight", "zoom"}
Presets == [outputFormat : OutputFormats, markingMode : EditorModes]

InitZoomEditor ==
    /\ selectedWords = <<>>
    /\ spans = <<>>
    /\ pc = "editing"
    /\ body = NoBody
    /\ props = NoProps
    /\ meta = NoMeta
    /\ frame = 0
    /\ out = NoOut
    /\ \E img \in EditorImages : editor = [NoEditor EXCEPT !.image = img]
    /\ server = NoServer

NextZoomEditor ==
    \/ \E pt \in EditorPoints : ZoomPointerDown(pt.x, pt.y)
    \/ \E pt \in EditorPoints : ZoomPointerMove(pt.x, pt.y)
    \/ ZoomPointerUp
    \/ \E format \in OutputFormats : ChangeOutputFormat(format)
    \/ \E mode \in EditorModes : ChangeMarkingMode(mode)
    \/ \E preset \in Presets : LoadPreset(preset)
    \/ DebounceFire
    \/ Undo
    \/ Redo

SpecZoomEditor == InitZoomEditor /\ [][NextZoomEditor]_vars

---------------------------------------------------------------------------
(* Undo and redo: an image is loaded, the user changes the output format   *)
(* any number of times, the debounce timer fires when it is pending, and   *)
(* the user undoes and redoes.                                             *)

InitHistory ==
    /\ selectedWords = <<>>
    /\ spans = <<>>
    /\ pc = "editing"
    /\ body = NoBody
    /\ props = NoProps
    /\ meta = NoMeta
    /\ frame = 0
    /\ out = NoOut
    /\ editor = [NoEditor EXCEPT !.image.imageWidth = 1600, !.image.imageHeight = 900]
    /\ server = NoServer

NextHistory ==
    \/ \E format \in OutputFormats : HistoryPush(format)
    \/ HistoryTimer
    \/ HistoryUndo
    \/ HistoryRedo

SpecHistory == InitHistory /\ [][NextHistory]_vars

---------------------------------------------------------------------------
(* Editing while a render runs: an image is loaded; the user selects       *)
(* words, sets and clears the zoom box, changes the output format and the  *)
(* marking mode, and starts renders, which complete or fail at any time.   *)
(* No snapshot is committed, so the history stays empty.                   *)

EditorSelections ==
    {<<>>, <<[text |-> "word", left |-> 0, top |-> 0, width |-> 10, height |-> 20]>>}

EditorZoomBoxes ==
    {<<>>, <<[x |-> Reduce(1, 4), y |-> Reduce(1, 4),
              width |-> Reduce(1, 2), height |-> Reduce(1, 2)]>>}

InitRenderRace ==
    /\ selectedWords = <<>>
    /\ spans = <<>>
    /\ pc = "editing"
    /\ body = NoBody
    /\ props = NoProps
    /\ meta = NoMeta
    /\ frame = 0
    /\ out = NoOut
    /\ editor = [NoEditor EXCEPT !.image.imageWidth = 1600, !.image.imageHeight = 900]
    /\ server = NoServer

NextRenderRace ==
    \/ \E words \in EditorSelections : OnSelectionChange(words)
    \/ \E zoomBox \in EditorZoomBoxes : OnZoomBoxChange(zoomBox)
    \/ \E format \in OutputFormats : ChangeOutputFormat(format)
    \/ \E mode \in EditorModes : ChangeMarkingMode(mode)
    \/ HandleRender
    \/ RenderDone
    \/ RenderFailed

SpecRenderRace == InitRenderRace /\ [][NextRenderRace]_vars

---------------------------------------------------------------------------
(* The server under concurrent render-stream requests *)

InitServer ==
    /\ selectedWords = <<>>
    /\ spans = <<>>
    /\ pc = "request"
    /\ body = NoBody
    /\ props = NoProps
    /\ meta = NoMeta
    /\ frame = 0
    /\ out = NoOut
    /\ editor = NoEditor
    /\ server = NoServer

NextServer ==
    \/ \E c \in Calls : StartRenderStream(c)
    \/ \E c \in Calls : PollWake(c)
    \/ \E c \in Calls : BundleResolve(c)
    \/ \E c \in Calls : BundleReject(c)
    \/ \E c \in Calls : SelectComposition(c)
    \/ \E c \in Calls : RenderProgress(c)
    \/ \E c \in Calls : RenderReject(c)
    \/ \E c \in Calls : RenderMediaResolve(c)

SpecServer == InitServer /\ [][NextServer]_vars

---------------------------------------------------------------------------
(* Claims about span clustering (specification SpecCluster) *)

Rect(span) == [left |-> span.left, top |-> span.top,
               right |-> span.right, bottom |-> span.bottom]
Rects(sp) == [i \in 1..Len(sp) |-> Rect(sp[i])]

\* the words of the row a span belongs to
RowWordsOf(span) ==
    UNION {Range(spans[k].words) : k \in {j \in 1..Len(spans) : spans[j].row = span.row}}
\* the top of the row a span belongs to
RowTopOf(span) == CHOOSE t \in {w.top : w \in RowWordsOf(span)} :
                      \A w \in RowWordsOf(span) : t <= w.top

\* C1: the span list is in reading order: of two adjacent spans, either the
\* first lies in a row further up than the second, or both lie in one row
\* and the first starts further left.
C1_ReadingOrder ==
    pc = "clustered" =>
        \A i \in 1..(Len(spans) - 1) :
            \/ /\ spans[i].row # spans[i + 1].row
               /\ RowTopOf(spans[i]) < RowTopOf(spans[i + 1])
            \/ /\ spans[i].row = spans[i + 1].row
               /\ spans[i].left < spans[i + 1].left

\* three spans: two in one row, the third in a lower row
C1_Witness ==
    /\ pc = "clustered"
    /\ Len(spans) = 3
    /\ spans[1].row = spans[2].row
    /\ spans[2].row # spans[3].row

RectsIntersect(a, b) ==
    /\ a.left < b.right /\ b.left < a.right
    /\ a.top < b.bottom /\ b.top < a.bottom

\* C2: no two distinct spans of one clustering run overlap: their
\* rectangles [left, right) x [top, bottom) do not intersect.
C2_NoOverlap ==
    pc = "clustered" =>
        \A i, j \in 1..Len(spans) : i # j => ~RectsIntersect(spans[i], spans[j])

\* two spans in different rows that share a column, and one merged from
\* several words
C2_Witness ==
    /\ pc = "clustered"
    /\ \E i, j \in 1..Len(spans) :
          /\ i # j
          /\ spans[i].left < spans[j].right /\ spans[j].left < spans[i].right
          /\ Len(spans[i].words) > 1

\* C3: every span is the bounding box of the words merged into it: its left
\* and top are the least left and top, its right and bottom the greatest
\* right and bottom edge of its words.
C3_BoundingBox ==
    pc = "clustered" =>
        \A i \in 1..Len(spans) :
            LET ws == Range(spans[i].words)
            IN  /\ \A w \in ws : /\ spans[i].left <= w.left
                                 /\ spans[i].top <= w.top
                                 /\ w.left + w.width <= spans[i].right
                                 /\ w.top + w.height <= spans[i].bottom
                /\ \E w \in ws : spans[i].left = w.left
                /\ \E w \in ws : spans[i].top = w.top
                /\ \E w \in ws : spans[i].right = w.left + w.width
                /\ \E w \in ws : spans[i].bottom = w.top + w.height

\* the running edges of the first n words of a span, as the merge keeps them
PrefixTop(ws, n) == SeqMin([k \in 1..n |-> ws[k].top])
PrefixBottom(ws, n) == SeqMax([k \in 1..n |-> ws[k].top + ws[k].height])
PrefixRight(ws, n) == ws[n].left + ws[n].width

\* C4: walking a row left to right, a word extends the current span exactly
\* when gap < 3 * (span height + word height) / 2, the gap being the word's
\* left minus the span's right edge; otherwise the span is emitted and the
\* word starts a new one.  Two 20px-high words merge at a gap of 50px and
\* split at gaps of 60px and 65px.
C4_MergeRule ==
    pc = "clustered" =>
        /\ \A i \in 1..Len(spans) :
              \A n \in 2..Len(spans[i].words) :
                  LET ws == spans[i].words
                  IN  2 * (ws[n].left - PrefixRight(ws, n - 1))
                          < 3 * ((PrefixBottom(ws, n - 1) - PrefixTop(ws, n - 1))
                                 + ws[n].height)
        /\ \A i \in 1..(Len(spans) - 1) :
              spans[i].row = spans[i + 1].row =>
                  LET w == spans[i + 1].words[1]
                  IN  2 * (w.left - spans[i].right)
                          >= 3 * ((spans[i].bottom - spans[i].top) + w.height)
        /\ (/\ Len(selectedWords) = 2
            /\ selectedWords[1].top = selectedWords[2].top
            /\ selectedWords[1].height = 20 /\ selectedWords[2].height = 20
            /\ selectedWords[1].left < selectedWords[2].left) =>
              LET gap == selectedWords[2].left
                           - (selectedWords[1].left + selectedWords[1].width)
              IN  /\ gap = 50 => Len(spans) = 1
                  /\ gap \in {60, 65} => Len(spans) = 2
                  /\ (Len(spans) = 1) <=> (gap < 60)

\* two 20px-high words, 60px apart, in two spans
C4_Witness ==
    /\ pc = "clustered"
    /\ Len(selectedWords) = 2
    /\ Len(spans) = 2
    /\ spans[1].row = spans[2].row
    /\ spans[2].left - spans[1].right = 60
    /\ spans[1].bottom - spans[1].top = 20

\* every order in which the same words can be listed
Orderings(words) == {s \in DistinctSeqs(Range(words), Len(words)) : Len(s) = Len(words)}

\* C5: clustering depends only on the set of selected words: listed in any
\* other order, the same words give the same span rectangles in the same
\* order.
C5_OrderIndependent ==
    pc = "clustered" =>
        \A other \in Orderings(selectedWords) :
            Rects(ClusterSpans(other)) = Rects(spans)

\* two boxes are adjacent iff their [top, top + height) intervals intersect
VerticallyAdjacent(u, v) ==
    /\ u.top < v.top + v.height
    /\ v.top < u.top + u.height

\* the boxes of S reachable from the boxes of `reached` along adjacent pairs
RECURSIVE ReachableFrom(_, _)
ReachableFrom(reached, S) ==
    LET next == reached \cup {v \in S : \E u \in reached : VerticallyAdjacent(u, v)}
    IN  IF next = reached THEN reached ELSE ReachableFrom(next, S)

\* the connected components of the vertical-overlap graph on S
Components(S) == {ReachableFrom({w}, S) : w \in S}

\* the rows of the clustering run, each as the set of its boxes
RowSets == {RowWordsOf(spans[i]) : i \in 1..Len(spans)}

ExtentTop(row) == CHOOSE t \in {w.top : w \in row} : \A w \in row : t <= w.top
ExtentBottom(row) ==
    CHOOSE b \in {w.top + w.height : w \in row} : \A w \in row : w.top + w.height <= b

\* C25: for a selection of boxes of positive height, the rows of the
\* first-fit grouping (after the sort by top) are exactly the connected
\* components of the vertical-overlap graph, in which two boxes are adjacent
\* iff their [top, top + height) intervals intersect; the vertical extents
\* [min top, max bottom) of distinct rows are pairwise disjoint.
C25_RowsAreComponents ==
    (pc = "clustered" /\ \A w \in Range(selectedWords) : w.height > 0) =>
        /\ RowSets = Components(Range(selectedWords))
        /\ \A r, q \in RowSets :
              r # q => \/ ExtentBottom(r) <= ExtentTop(q)
                       \/ ExtentBottom(q) <= ExtentTop(r)

\* one row of three boxes, two of which do not overlap each other and are
\* joined only through the third
C25_Witness ==
    /\ pc = "clustered"
    /\ Len(selectedWords) = 3
    /\ Cardinality(RowSets) = 1
    /\ \E u, v \in Range(selectedWords) : ~VerticallyAdjacent(u, v)

---------------------------------------------------------------------------
(* Claims about the reveal (specification SpecReveal) *)

RECURSIVE FilledWidth(_)
FilledWidth(rects) ==
    IF rects = <<>> THEN 0 ELSE Head(rects).drawWidth + FilledWidth(Tail(rects))

\* C6: in highlight mode, from each frame of the clip to the next, the
\* distance travelled by the sweep does not decrease and the filled width
\* summed over all spans does not decrease.
C6_HighlightMonotone ==
    [][(pc = "frames" /\ pc' = "frames" /\ props.markingMode = "highlight") =>
          /\ frame' = frame + 1
          /\ out'.distanceTraveled >= out.distanceTraveled
          /\ FilledWidth(out'.highlight) >= FilledWidth(out.highlight)]_vars

\* the sweep is inside the second span
C6_Witness ==
    /\ pc = "frames"
    /\ props.markingMode = "highlight"
    /\ Len(out.highlight) = 2
    /\ Len(spans) = 3
    /\ out.highlight[2].drawWidth < out.highlight[2].spanWidth
    /\ out.highlight[1].drawWidth = out.highlight[1].spanWidth

ZeroReveal(o) ==
    /\ o.highlight = <<>>
    /\ o.strokes = <<>>
    /\ ~o.unblur.rendered
    /\ o.zoom.scaleNum = o.zoom.scaleDen
    /\ o.zoom.translateXNum = 0
    /\ o.zoom.translateYNum = 0

FullReveal(o, mode, sp) ==
    /\ mode = "highlight" =>
          /\ Len(o.highlight) = Len(sp)
          /\ \A i \in 1..Len(o.highlight) :
                /\ o.highlight[i].span = i
                /\ o.highlight[i].drawWidth = o.highlight[i].spanWidth
                /\ o.highlight[i].spanWidth > 0
    /\ mode \in {"circle", "underline"} =>
          /\ Len(o.strokes) = Len(sp)
          /\ \A i \in 1..Len(o.strokes) :
                /\ o.strokes[i].span = i
                /\ o.strokes[i].visible = o.strokes[i].length

\* C7: frame 0 shows no reveal in any mode: no highlight rectangle, no
\* stroke, no unblur layer, zoom scale 1 and translation 0.  From frame
\* highlightStartFrame + totalHighlightFrames on, highlight, circle and
\* underline show every span in full.
C7_RevealBoundary ==
    pc = "frames" =>
        /\ frame = 0 => ZeroReveal(out)
        /\ (/\ props.markingMode \in ModesWithSpans
            /\ frame >= out.highlightStartFrame + out.totalHighlightFrames) =>
              FullReveal(out, props.markingMode, spans)

\* three circles drawn in full after the reveal has ended
C7_Witness ==
    /\ pc = "frames"
    /\ props.markingMode = "circle"
    /\ frame >= out.highlightStartFrame + out.totalHighlightFrames
    /\ Len(spans) = 3
    /\ Len(out.strokes) = 3
    /\ out.strokes[3].visible = out.strokes[3].length

\* the padded width of the spans before span i, times T
RECURSIVE WidthBefore(_, _, _)
WidthBefore(sp, i, scale) ==
    IF i <= 1 THEN 0
    ELSE WidthBefore(sp, i - 1, scale) + SpanWidth(sp[i - 1], scale)

\* the rectangles drawn are those of the spans 1..k in reading order, all
\* but the last of them in full, and span i is drawn only once the sweep
\* has passed the padded width of the spans before it
SequentialHighlight(o, sp, scale) ==
    /\ Len(o.highlight) <= Len(sp)
    /\ \A i \in 1..Len(o.highlight) :
          /\ o.highlight[i].span = i
          /\ o.highlight[i].drawWidth > 0
          /\ o.highlight[i].drawWidth <= o.highlight[i].spanWidth
          /\ i < Len(o.highlight) =>
                o.highlight[i].drawWidth = o.highlight[i].spanWidth
          /\ o.distanceTraveled > WidthBefore(sp, i, scale) * o.totalHighlightFrames
    /\ \A i \in 1..Len(sp) :
          o.distanceTraveled > WidthBefore(sp, i, scale) * o.totalHighlightFrames
              => i <= Len(o.highlight)

\* the strokes drawn are those of the spans 1..k in reading order, all but
\* the last of them complete; span i of N (counted from 0) is drawn once
\* the progress has passed i/N and is complete from (i+1)/N on
SequentialStrokes(o, sp) ==
    LET T == o.totalHighlightFrames
        N == Len(sp)
        progress == Progress(o.highlightFrame, T)
    IN  /\ Len(o.strokes) <= N
        /\ \A i \in 1..Len(o.strokes) :
              /\ o.strokes[i].span = i
              /\ o.strokes[i].linearProgress > 0
              /\ o.strokes[i].linearProgress <= T
              /\ i < Len(o.strokes) =>
                    /\ o.strokes[i].linearProgress = T
                    /\ o.strokes[i].visible = o.strokes[i].length
        /\ \A i \in 1..N :
              /\ i <= Len(o.strokes) <=> N * progress > (i - 1) * T
              /\ (i <= Len(o.strokes) /\ o.strokes[i].linearProgress = T)
                    <=> N * progress >= i * T

\* C24: in highlight, circle and underline mode, at every frame at most one
\* span is partially revealed; every span before it in reading order is
\* fully revealed and every span after it is not revealed at all.  In
\* circle and underline mode span i of N starts at progress i/N and is
\* complete at (i+1)/N; in highlight mode span i starts only once the
\* cumulative padded width of the spans before it has been swept.
C24_OneSpanAtATime ==
    pc = "frames" =>
        /\ props.markingMode = "highlight" =>
              SequentialHighlight(out, spans, ScaleFactor(props))
        /\ props.markingMode \in {"circle", "underline"} =>
              SequentialStrokes(out, spans)

\* the second of three underlines is being drawn, the first is complete
C24_Witness ==
    /\ pc = "frames"
    /\ props.markingMode = "underline"
    /\ Len(spans) = 3
    /\ Len(out.strokes) = 2
    /\ out.strokes[1].linearProgress = out.totalHighlightFrames
    /\ out.strokes[2].linearProgress > 0
    /\ out.strokes[2].linearProgress < out.totalHighlightFrames

\* C8: with words selected in highlight, circle or underline mode, the frame
\* at which the composition's reveal is complete is no later than the
\* resolver's leadInFrames + highlightFrames for the clip's frame rate.
C8_RevealInsideHighlightWindow ==
    (/\ pc = "frames"
     /\ props.markingMode \in ModesWithSpans
     /\ selectedWords # <<>>) =>
        out.highlightStartFrame + out.totalHighlightFrames
            <= meta.leadInFrames + meta.highlightFrames

---------------------------------------------------------------------------
(* Claims about the Duration Resolver (specification SpecDuration) *)

\* max(fps, ceil(totalChars / charsPerSecond * fps))
TextFrames(words, fps, cps) ==
    Max2(fps, CeilDiv(TotalCharacters(words) * fps, cps))

TotalIsSumOfParts ==
    /\ meta.leadInFrames = Max2(30, RoundDiv(body.leadInTenths * body.frameRate, 10))
    /\ meta.leadOutFrames = RoundDiv(body.leadOutTenths * body.frameRate, 10)
    /\ meta.exitBuffer = IF body.exitAnimation \in {"none", "blur"}
                         THEN 0 ELSE RoundDiv(body.frameRate, 2)
    /\ meta.durationInFrames =
           meta.leadInFrames + meta.highlightFrames + meta.leadOutFrames + meta.exitBuffer

C10_ZoomDuration ==
    (pc = "metadata" /\ body.markingMode = "zoom") =>
        meta.highlightFrames = CeilDiv(body.zoomDurationTenths * body.frameRate, 10)

---------------------------------------------------------------------------
(* Claims about the start of the reveal and the zoom (specification SpecZoom) *)

RevealStarted(o) ==
    \/ o.highlight # <<>>
    \/ o.strokes # <<>>
    \/ (o.unblur.rendered /\ o.unblur.opacityNum > 0)
    \/ o.zoom.progressNum > 0

\* C11: whenever the reveal progress, the unblur progress or the zoom
\* progress of a frame is non-zero, the 30-frame enter animation has
\* finished: enter blur 0, enter translation 0, enter opacity 1.
C11_EnterFinishedBeforeReveal ==
    (pc = "frames" /\ RevealStarted(out)) => out.enterAnim = NoAnimation

InZoom == pc = "frames" /\ props.markingMode = "zoom" /\ props.zoomBox.present

\* C14: in zoom mode with a zoom box, the zoom progress is 0 at every frame
\* up to the resolver's leadInFrames and 1 at every frame from the resolver's
\* leadInFrames + zoomDurationFrames on, both taken at the clip's frame rate.
C14_ZoomWindow ==
    InZoom =>
        /\ frame <= meta.leadInFrames => out.zoom.progressNum = 0
        /\ frame >= meta.leadInFrames + meta.highlightFrames =>
              out.zoom.progressNum = out.zoom.progressDen

\* C15: in zoom mode, at zoom progress 0 the zoom scale is 1 and the
\* translation is 0; at zoom progress 1 the scale is 1 / zoomBox.width and
\* the transform maps the centre of the zoom box onto the centre of the frame.
C15_ZoomCentre ==
    InZoom =>
        /\ out.zoom.progressNum = 0 =>
              /\ out.zoom.scaleNum = out.zoom.scaleDen
              /\ out.zoom.translateXNum = 0
              /\ out.zoom.translateYNum = 0
              /\ ZoomedPoint(out.zoom, 100, 100) = [x |-> [num |-> 0, den |-> 1],
                                                     y |-> [num |-> 0, den |-> 1]]
        /\ out.zoom.progressNum = out.zoom.progressDen =>
              /\ out.zoom.scaleNum * props.zoomBox.width = 100 * out.zoom.scaleDen
              /\ ZoomedPoint(out.zoom,
                             2 * props.zoomBox.x + props.zoomBox.width,
                             2 * props.zoomBox.y + props.zoomBox.height)
                     = [x |-> [num |-> 0, den |-> 1], y |-> [num |-> 0, den |-> 1]]

\* the zoom has ended on a box that is off centre and a quarter of the image wide
C15_Witness ==
    /\ InZoom
    /\ out.zoom.progressNum = out.zoom.progressDen
    /\ props.zoomBox.width = 25
    /\ props.zoomBox.x = 60
    /\ out.zoom.scaleNum = 4 * out.zoom.scaleDen

---------------------------------------------------------------------------
(* Claims about the composed transform (specification SpecTransform) *)

InRange(x, lo, hi) == lo <= x /\ x <= hi

\* C12: at every frame of the clip, under every enter animation, exit
\* animation and camera movement, enter and exit blur lie in [0, 20], enter
\* and exit translation in [-150, 150] px, enter, exit and combined opacity
\* in [0, 1], rotation in [-7.5, 7.5] degrees and camera scale in [1, 1.15].
C12_TransformInRange ==
    pc = "frames" =>
        /\ \A a \in {out.enterAnim, out.exitAnim} :
              /\ InRange(a.blur, 0, MaxBlur * EaseDen)
              /\ InRange(a.translateX, (0 - SlideDistance) * EaseDen, SlideDistance * EaseDen)
              /\ InRange(a.translateY, (0 - SlideDistance) * EaseDen, SlideDistance * EaseDen)
              /\ InRange(a.opacity, 0, EaseDen)
        /\ InRange(out.combined.opacity, 0, EaseDen)
        /\ InRange(out.camera.rotateX, 0 - 15 * out.durationInFrames, 15 * out.durationInFrames)
        /\ InRange(out.camera.rotateY, 0 - 15 * out.durationInFrames, 15 * out.durationInFrames)
        /\ InRange(out.camera.scale, 100 * out.durationInFrames, 115 * out.durationInFrames)

\* C13: at every supported frame rate, a slide exit gets an exit buffer of
\* fps / 2 frames in the clip length and the composition's slide-out ends
\* exactly that many frames before the end of the clip; a blur or no exit
\* gets no buffer, and a blur-out ends at the end of the clip.
C13_ExitBuffer ==
    pc = "frames" =>
        /\ IsSlideExit(props.exitAnimation) =>
              /\ meta.exitBuffer = RoundDiv(props.frameRate, 2)
              /\ meta.durationInFrames - ExitEnd(props, out.durationInFrames)
                     = meta.exitBuffer
        /\ ~IsSlideExit(props.exitAnimation) =>
              /\ meta.exitBuffer = 0
              /\ ExitEnd(props, out.durationInFrames) = meta.durationInFrames

---------------------------------------------------------------------------
(* Claims about the background classification (specification SpecBackground) *)

\* C16: a background [R, G, B] is classified dark exactly when
\* (0.299 R + 0.587 G + 0.114 B) / 255 < 0.5, strictly: a luminance of
\* exactly 0.5 is light; [255,255,255] is light, [10,10,10] dark and
\* [128,128,128] light.  A dark background is blended with "screen", a light
\* one with "multiply".
C16_LuminanceThreshold ==
    pc = "frames" =>
        /\ (out.blendMode = "screen") <=> ExactlyBelowHalf(props.backgroundColor)
        /\ props.backgroundColor = <<255, 255, 255>> => out.blendMode = "multiply"
        /\ props.backgroundColor = <<10, 10, 10>> => out.blendMode = "screen"
        /\ props.backgroundColor = <<128, 128, 128>> => out.blendMode = "multiply"

---------------------------------------------------------------------------
(* Claims about the zoom-box editor (specification SpecZoomEditor) *)

\* x >= 0, y >= 0, x + width <= 1 and y + height <= 1
WithinImage(box) ==
    /\ RLeq(RZero, box.x)
    /\ RLeq(RZero, box.y)
    /\ RLeq(RAdd(box.x, box.width), ROne)
    /\ RLeq(RAdd(box.y, box.height), ROne)

\* C17: every zoom box the editor shows as a preview (the result of
\* calculateZoomBox while drawing, the moved box while moving) and every zoom
\* box it stores lies within the image.
C17_BoxWithinImage ==
    /\ editor.preview # <<>> => WithinImage(editor.preview[1])
    /\ editor.image.zoomBox # <<>> => WithinImage(editor.image.zoomBox[1])

\* the draw in progress has moved the pointer sideways, and the box it yields
\* after aspect correction and clamping is narrower than the minimum width
NarrowDrag ==
    /\ editor.drag # <<>>
    /\ editor.drag[1].startX # editor.drag[1].currentX
    /\ RLess(ClampedZoomBox(editor.image, editor.drag[1].startX, editor.drag[1].startY,
                            editor.drag[1].currentX, editor.drag[1].currentY).width,
             MinZoomWidth)

\* C18: when the pointer goes up on a draw whose box is narrower than the
\* minimum width, the box enlarged to the minimum width becomes the stored
\* zoom box.
C18_NarrowDragStored ==
    [][(/\ editor.image.markingMode = "zoom"
        /\ editor.move = <<>>
        /\ NarrowDrag
        /\ editor'.drag = <<>>)
       => editor'.image.zoomBox =
              <<calculateZoomBox(editor.image, editor.drag[1].startX, editor.drag[1].startY,
                                 editor.drag[1].currentX, editor.drag[1].currentY)>>]_vars

\* C19: a stored zoom box has the aspect ratio of the selected output format:
\* height * imageHeight / (width * imageWidth) = outputHeight / outputWidth.
C19_AspectMatchesFormat ==
    editor.image.zoomBox # <<>> =>
        RDiv(editor.image.zoomBox[1].height,
             RMul(editor.image.zoomBox[1].width, ImageAspect(editor.image)))
            = RDiv(ROne, VideoAspect(editor.image.outputFormat))

---------------------------------------------------------------------------
(* Claims about the request boundary (specification SpecRequest) *)

\* the valid ranges of a configuration: no negative duration, a positive
\* reveal speed, a frame rate of 24, 30 or 60
ValidRanges(req) ==
    /\ req.leadInTenths >= 0
    /\ req.leadOutTenths >= 0
    /\ req.zoomDurationTenths >= 0
    /\ req.charsPerSecond > 0
    /\ req.frameRate \in FrameRates

\* C20: a request whose configuration violates the valid ranges is never
\* accepted by the parser and never handed to the renderer.
C20_RangeViolationRejected ==
    ~ValidRanges(body) => pc \notin {"parsed", "rendering"}

---------------------------------------------------------------------------
(* Claims about the empty selection (specification SpecEmpty) *)

\* at the frame rendered, no annotation layer shows anything
NoOverlay(o) == o.highlight = <<>> /\ o.strokes = <<>> /\ ~o.unblur.rendered

\* C21 (as amended): with an empty selection the Duration Resolver yields
\* highlightFrames = 2 * fps in every mode but zoom with a zoom box, where it
\* yields ceil(zoomDurationSeconds * fps); the clip has a positive length;
\* totalHighlightFrames >= 30; and at every frame the highlight, circle,
\* underline and unblur layers render nothing.
C21_EmptySelection ==
    (pc \in {"metadata", "frames"} /\ selectedWords = <<>>) =>
        /\ meta.highlightFrames =
               IF UsesZoomDuration(props)
               THEN CeilDiv(props.zoomDurationTenths * meta.fps, 10)
               ELSE 2 * meta.fps
        /\ meta.durationInFrames > 0
        /\ pc = "frames" => (out.totalHighlightFrames >= 30 /\ NoOverlay(out))

\* an empty selection rendered in circle mode at a frame after the reveal
\* would have started
C21_Witness ==
    /\ pc = "frames"
    /\ selectedWords = <<>>
    /\ props.markingMode = "circle"
    /\ frame > out.highlightStartFrame
    /\ meta.highlightFrames = 2 * meta.fps

\* C21 as stated: highlightFrames = 2 * fps for every empty selection
C21_AsClaimed ==
    (pc \in {"metadata", "frames"} /\ selectedWords = <<>>) =>
        /\ meta.highlightFrames = 2 * meta.fps
        /\ meta.durationInFrames > 0
        /\ pc = "frames" => (out.totalHighlightFrames >= 30 /\ NoOverlay(out))

---------------------------------------------------------------------------
(* Claims about the render service (specification SpecServer) *)

\* the calls whose bundle() is in flight
BundlingCalls == {c \in Calls : server.calls[c].stage = "bundling"}

HasEvent(c, stage) == \E i \in 1..Len(server.calls[c].events) :
                          server.calls[c].events[i].stage = stage

\* C22: at most one bundle() is in flight at any time, and once bundleLocation
\* is set no bundle() is in flight and bundle() has run exactly once.
C22_SingleBundle ==
    /\ Cardinality(BundlingCalls) <= 1
    /\ server.bundleLocation # <<>> =>
           (BundlingCalls = {} /\ server.bundleCalls = 1)

\* one call bundled, and two others that did not bundle went on with its
\* bundle
C22_Witness ==
    \E c1, c2, c3 \in Calls :
        /\ c2 # c3
        /\ HasEvent(c1, "bundling") /\ HasEvent(c1, "composing")
        /\ ~HasEvent(c2, "bundling") /\ HasEvent(c2, "composing")
        /\ ~HasEvent(c3, "bundling") /\ HasEvent(c3, "composing")

TerminalStages == {"done", "error"}

\* C23: on every stream the events before the last are progress updates; a
\* closed stream ends in its one terminal event ('done' with the videoPath,
\* or 'error'), and an open stream has had no terminal event.
C23_OneTerminalEvent ==
    \A c \in Calls :
        LET events == server.calls[c].events
        IN  /\ \A i \in 1..(Len(events) - 1) : events[i].stage \notin TerminalStages
            /\ server.calls[c].closed =>
                   /\ events # <<>>
                   /\ events[Len(events)].stage \in TerminalStages
                   /\ events[Len(events)].stage = "done" => events[Len(events)].videoPath
            /\ ~server.calls[c].closed =>
                   (events = <<>> \/ events[Len(events)].stage \notin TerminalStages)

\* C29: isBundling is set only while a bundle() is in flight, so a caller
\* that polls or arrives later is not held by a bundle() that has ended.
C29_FlagReleased ==
    server.isBundling => BundlingCalls # {}

---------------------------------------------------------------------------
(* Claims about the displayed image box (specification SpecDisplay) *)

\* C30: at every frame the displayed image box fits inside the output frame
\* less its padding on both sides: displayWidth <= width - 200 and
\* displayHeight <= height - 200.
C30_DisplayFitsOutput ==
    pc = "frames" =>
        /\ RLeq(out.displayWidth, Reduce(meta.width - 2 * Padding, 1))
        /\ RLeq(out.displayHeight, Reduce(meta.height - 2 * Padding, 1))

---------------------------------------------------------------------------
(* Claims about undo and redo (specification SpecHistory) *)

\* C26: a push invalidates the redo stack: after a push, redo() leaves the
\* current state unchanged until a later undo() has been performed, whether
\* or not the debounce timer of that push has fired.
C26_PushInvalidatesRedo ==
    [][(editor'.trace.op = "redo" /\ editor.trace.pushedSinceUndo) =>
          editor'.image = editor.image]_vars

\* C27: with the current state s0, after a burst of one or more pushes, each
\* within the debounce window of the one before, that ends in the state s1,
\* undo(), called before or after the debounce timer fires, sets the
\* current state to s0, and a redo() that follows it at once sets the
\* current state back to s1.
C27_BurstIsOneStep ==
    [][/\ (editor'.trace.op = "undo" /\ editor.trace.phase = "open") =>
             editor'.image = editor.trace.from
       /\ (editor'.trace.op = "redo" /\ editor.trace.phase = "undone") =>
             editor'.image = editor.trace.to]_vars

\* a burst of two or more pushes that changed the state has been undone and
\* redone
C27_Witness ==
    /\ editor.trace.phase = "redone"
    /\ editor.trace.pushes = 2
    /\ editor.trace.from # editor.trace.to
    /\ editor.image = editor.trace.to

---------------------------------------------------------------------------
(* Claims about editing while a render runs (specification SpecRenderRace) *)

\* C28: whenever image.videoPath is non-null, the video it names was
\* rendered from the image's current selectedWords, zoomBox and settings,
\* also when the image is changed while a render request is in flight and
\* the render completes afterwards.
C28_VideoMatchesImage ==
    editor.image.videoPath # <<>> =>
        editor.image.videoPath[1] = RenderRequest(editor.image)

====
